---- MODULE Spec2Model ----
(***************************************************************************)
(* A model of fclones' report writer / report readers (src/src/report.rs) *)
(* and of the command drivers of src/src/main.rs.                          *)
(*                                                                         *)
(* Text is a sequence of symbols.  A symbol is a single character ("#",    *)
(* " ", "4", "\n", ...) or a whole lower/upper-case word of a fixed        *)
(* message ("Report", "fclones", ...), which behaves as one letter that is *)
(* neither white space, a digit, a hex digit nor punctuation.              *)
(* Unsigned integers (u64, usize) are canonical decimal digit sequences,   *)
(* a 128-bit hash is its sequence of 32 hex digits: the values do not fit  *)
(* into the integers of the model checker, their texts do.                 *)
(***************************************************************************)
EXTENDS Integers, Sequences, FiniteSets, TLC

\* ------------------------------------------------------------------ bounds
MaxGroups == 2      \* groups in a written report
MaxLines == 3       \* lines of a hand-made text report body
MaxCalls == 2       \* calls of read_header on one reader
MaxNextCalls == 4   \* calls of next on one group iterator
MaxLead == 2        \* white space in front of a report handed to open_report
MaxRoots == 3       \* input paths of a group command

\* --------------------------------------------------------------- characters
Digits == {"0", "1", "2", "3", "4", "5", "6", "7", "8", "9"}
HexLower == Digits \cup {"a", "b", "c", "d", "e", "f"}
\* char::is_whitespace restricted to the characters the model uses
WhiteSpace == {" ", "\t", "\r", "\n"}

DigitSeq == <<"0", "1", "2", "3", "4", "5", "6", "7", "8", "9">>
DigitVal(c) == (CHOOSE i \in 1..10 : DigitSeq[i] = c) - 1

Take(s, n) == SubSeq(s, 1, n)
Drop(s, n) == SubSeq(s, n + 1, Len(s))

RECURSIVE Rep(_, _)
Rep(c, n) == IF n = 0 THEN <<>> ELSE <<c>> \o Rep(c, n - 1)

RECURSIVE Concat(_)
Concat(ss) == IF ss = <<>> THEN <<>> ELSE Head(ss) \o Concat(Tail(ss))

\* length of the longest prefix of s made of members of S
SpanIn(s, S) ==
    IF \A i \in 1..Len(s) : s[i] \in S THEN Len(s)
    ELSE (CHOOSE i \in 1..Len(s) : s[i] \notin S /\ \A j \in 1..(i - 1) : s[j] \in S) - 1

\* length of the longest prefix of s that holds no member of S
SpanNotIn(s, S) ==
    IF \A i \in 1..Len(s) : s[i] \notin S THEN Len(s)
    ELSE (CHOOSE i \in 1..Len(s) : s[i] \in S /\ \A j \in 1..(i - 1) : s[j] \notin S) - 1

\* str::trim_start, str::trim_end, str::trim, str::starts_with
trim_start(s) == Drop(s, SpanIn(s, WhiteSpace))

RECURSIVE trim_end(_)
trim_end(s) ==
    IF s # <<>> /\ s[Len(s)] \in WhiteSpace THEN trim_end(Take(s, Len(s) - 1)) ELSE s

trim(s) == trim_end(trim_start(s))

starts_with(s, p) == Len(s) >= Len(p) /\ Take(s, Len(p)) = p

\* BufRead::read_line: the bytes up to and including the next "\n", or all
\* that is left; n = 0 at the end of the input.
read_line(stream) ==
    LET k == SpanNotIn(stream, {"\n"})
        n == IF k < Len(stream) THEN k + 1 ELSE k
    IN  [line |-> Take(stream, n), rest |-> Drop(stream, n), n |-> n]

\* ------------------------------------------------------------------ numbers
\* A u64 or usize value is the sequence of its decimal digits (numbers 0..9,
\* most significant first, no leading zero): <<1, 0, 0>> is 100.
HexSeq == DigitSeq \o <<"a", "b", "c", "d", "e", "f">>
HexVal(c) == (CHOOSE i \in 1..16 : HexSeq[i] = c) - 1

U64Max == <<1, 8, 4, 4, 6, 7, 4, 4, 0, 7, 3, 7, 0, 9, 5, 5, 1, 6, 1, 5>>

Canon(d) ==
    LET z == SpanIn(d, {0}) IN IF z = Len(d) THEN <<0>> ELSE Drop(d, z)

\* a <= b for digit sequences of equal length
RECURSIVE DigitsLeq(_, _)
DigitsLeq(a, b) ==
    IF a = <<>> THEN TRUE
    ELSE IF Head(a) < Head(b) THEN TRUE
    ELSE IF Head(a) > Head(b) THEN FALSE
    ELSE DigitsLeq(Tail(a), Tail(b))

FitsU64(d) ==
    Len(d) < Len(U64Max) \/ (Len(d) = Len(U64Max) /\ DigitsLeq(d, U64Max))

\* str::parse::<u64>() of a non-empty string of decimal digits
parse_u64(text) ==
    LET d == Canon([i \in 1..Len(text) |-> DigitVal(text[i])])
    IN  IF FitsU64(d) THEN [ok |-> TRUE, v |-> d] ELSE [ok |-> FALSE, v |-> <<>>]

\* usize is 64 bits wide on the targets fclones builds for
parse_usize(text) == parse_u64(text)

\* Display of u64 and usize
u64_display(v) == [i \in 1..Len(v) |-> DigitSeq[v[i] + 1]]

IsZero(v) == v = <<0>>

\* v - 1 for v > 0
RECURSIVE DecRaw(_)
DecRaw(v) ==
    IF v[Len(v)] = 0 THEN DecRaw(Take(v, Len(v) - 1)) \o <<9>>
    ELSE Take(v, Len(v) - 1) \o <<v[Len(v)] - 1>>

Dec(v) == Canon(DecRaw(v))

\* the usize of a small length (Vec::len)
RECURSIVE usize_of(_)
usize_of(n) == IF n < 10 THEN <<n>> ELSE usize_of(n \div 10) \o <<n % 10>>

\* --------------------------------------------------------------- data model
\* crate::path::Path: a root marker and the name components.  Path::from
\* splits the text at "/" and Display joins the components again.
RECURSIVE SplitComponents(_)
SplitComponents(s) ==
    IF s = <<>> THEN <<>>
    ELSE LET k == SpanNotIn(s, {"/"})
             rest == SplitComponents(Drop(s, k + 1))
         IN  IF k = 0 THEN rest ELSE <<Take(s, k)>> \o rest

PathFrom(s) == [root |-> s # <<>> /\ Head(s) = "/", components |-> SplitComponents(s)]

RECURSIVE JoinWith(_, _)
JoinWith(ss, sep) ==
    IF ss = <<>> THEN <<>>
    ELSE IF Len(ss) = 1 THEN Head(ss)
    ELSE Head(ss) \o sep \o JoinWith(Tail(ss), sep)

PathDisplay(p) == (IF p.root THEN <<"/">> ELSE <<>>) \o JoinWith(p.components, <<"/">>)

\* crate::files::FileHash: a u128, here its 32 hex digits as numbers 0..15,
\* shown as 32 lower-case hex digits ("{:032x}")
HashHexLen == 32
FileHashDisplay(h) == [i \in 1..Len(h) |-> HexSeq[h[i] + 1]]
\* u128::from_str_radix(text, 16) of 32 hex digits
u128_from_str_radix(text) == [i \in 1..Len(text) |-> HexVal(text[i])]

\* crate::files::FileLen, shown human-readable: "4 B", "6.6 MB"
SizeUnits == <<"KB", "MB", "GB", "TB", "PB", "EB">>
FileLenDisplay(v) ==
    LET d == u64_display(v) IN
    IF Len(d) <= 3 THEN d \o <<" ", "B">>
    ELSE LET n == ((Len(d) - 1) % 3) + 1
         IN  Take(d, n) \o <<".", d[n + 1], " ", SizeUnits[(Len(d) - 1) \div 3]>>

\* chrono::DateTime<FixedOffset>: date and time of day (text), the nanoseconds
\* (nine digits, numbers 0..9), the offset from UTC (text).  TIMESTAMP_FMT is "%Y-%m-%d %H:%M:%S.%3f %z".
TimestampShape ==
    <<"d","d","d","d","-","d","d","-","d","d"," ","d","d",":","d","d",":","d","d",
      ".","d","d","d"," ","s","d","d","d","d">>

MatchesShape(s, shape) ==
    /\ Len(s) = Len(shape)
    /\ \A i \in 1..Len(shape) :
         CASE shape[i] = "d" -> s[i] \in Digits
           [] shape[i] = "s" -> s[i] \in {"+", "-"}
           [] OTHER -> s[i] = shape[i]

format_timestamp(t) ==
    t.datetime \o <<".">> \o u64_display(Take(t.nanos, 3)) \o <<" ">> \o t.offset

parse_timestamp(s) ==
    IF MatchesShape(s, TimestampShape)
    THEN [ok |-> TRUE,
          v |-> [datetime |-> Take(s, 19),
                 nanos |-> [i \in 1..3 |-> DigitVal(s[20 + i])] \o Rep(0, 6),
                 offset |-> SubSeq(s, 25, 29)]]
    ELSE [ok |-> FALSE, v |-> <<>>]

\* shell_words::quote and shell_words::join
ShellSafe(c) == c \notin WhiteSpace \cup {"'", "\"", "\\", "#", "*", "(", ")", "{", "}", "$"}

RECURSIVE QuoteInner(_)
QuoteInner(s) ==
    IF s = <<>> THEN <<>>
    ELSE (IF Head(s) = "'" THEN <<"'", "\\", "'", "'">> ELSE <<Head(s)>>) \o QuoteInner(Tail(s))

shell_quote(s) ==
    IF s = <<>> THEN <<"'", "'">>
    ELSE IF \A i \in 1..Len(s) : ShellSafe(s[i]) THEN s
    ELSE <<"'">> \o QuoteInner(s) \o <<"'">>

shell_join(words) == JoinWith([i \in 1..Len(words) |-> shell_quote(words[i])], <<" ">>)

\* shell_words::split: the state machine of the crate
RECURSIVE SplitFrom(_, _, _, _)
SplitFrom(s, st, word, words) ==
    LET c == Head(s)
        r == Tail(s)
        delim == {"\t", " ", "\n"}
    IN
    IF s = <<>> THEN
        CASE st \in {"Delimiter", "Comment"} -> [ok |-> TRUE, v |-> words]
          [] st \in {"Backslash", "UnquotedBackslash"} ->
                [ok |-> TRUE, v |-> Append(words, Append(word, "\\"))]
          [] st = "Unquoted" -> [ok |-> TRUE, v |-> Append(words, word)]
          [] OTHER -> [ok |-> FALSE, v |-> <<>>]
    ELSE
        CASE st = "Delimiter" ->
                IF c = "'" THEN SplitFrom(r, "SingleQuoted", word, words)
                ELSE IF c = "\"" THEN SplitFrom(r, "DoubleQuoted", word, words)
                ELSE IF c = "\\" THEN SplitFrom(r, "Backslash", word, words)
                ELSE IF c \in delim THEN SplitFrom(r, "Delimiter", word, words)
                ELSE IF c = "#" THEN SplitFrom(r, "Comment", word, words)
                ELSE SplitFrom(r, "Unquoted", Append(word, c), words)
          [] st = "Backslash" ->
                IF c = "\n" THEN SplitFrom(r, "Delimiter", word, words)
                ELSE SplitFrom(r, "Unquoted", Append(word, c), words)
          [] st = "Unquoted" ->
                IF c = "'" THEN SplitFrom(r, "SingleQuoted", word, words)
                ELSE IF c = "\"" THEN SplitFrom(r, "DoubleQuoted", word, words)
                ELSE IF c = "\\" THEN SplitFrom(r, "UnquotedBackslash", word, words)
                ELSE IF c \in delim THEN SplitFrom(r, "Delimiter", <<>>, Append(words, word))
                ELSE SplitFrom(r, "Unquoted", Append(word, c), words)
          [] st = "UnquotedBackslash" ->
                IF c = "\n" THEN SplitFrom(r, "Unquoted", word, words)
                ELSE SplitFrom(r, "Unquoted", Append(word, c), words)
          [] st = "SingleQuoted" ->
                IF c = "'" THEN SplitFrom(r, "Unquoted", word, words)
                ELSE SplitFrom(r, "SingleQuoted", Append(word, c), words)
          [] st = "DoubleQuoted" ->
                IF c = "\"" THEN SplitFrom(r, "Unquoted", word, words)
                ELSE IF c = "\\" THEN SplitFrom(r, "DoubleQuotedBackslash", word, words)
                ELSE SplitFrom(r, "DoubleQuoted", Append(word, c), words)
          [] st = "DoubleQuotedBackslash" ->
                IF c = "\n" THEN SplitFrom(r, "DoubleQuoted", word, words)
                ELSE IF c \in {"$", "\"", "\\"}
                     THEN SplitFrom(r, "DoubleQuoted", Append(word, c), words)
                ELSE SplitFrom(r, "DoubleQuoted", Append(Append(word, "\\"), c), words)
          [] OTHER ->  \* Comment
                IF c = "\n" THEN SplitFrom(r, "Delimiter", word, words)
                ELSE SplitFrom(r, "Comment", word, words)

shell_split(s) == SplitFrom(s, "Delimiter", <<>>, <<>>)

\* Option::None; Some(x) is x itself
None == [none |-> TRUE]

\* ------------------------------------------------------------ ReportWriter
\* console::style(..).force_styling(color): ANSI colour around the text
style(text, code, color) == IF color THEN <<code>> \o text \o <<"ESC[0m">> ELSE text

write_header_line(line, color) == style(<<"#", " ">> \o line, "ESC[36m", color) \o <<"\n">>

write_group_text(g, color) ==
    LET group_header ==
            FileHashDisplay(g.file_hash) \o <<",", " ">> \o u64_display(g.file_len)
            \o <<" ", "B", " ", "(">> \o FileLenDisplay(g.file_len) \o <<")", " ", "*", " ">>
            \o u64_display(usize_of(Len(g.files))) \o <<":">>
    IN  style(group_header, "ESC[33m", color) \o <<"\n">>
        \o Concat([i \in 1..Len(g.files) |->
                     <<" ", " ", " ", " ">> \o PathDisplay(g.files[i]) \o <<"\n">>])

write_as_text(header, groups, color) ==
    LET command == shell_join(header.command) IN
    write_header_line(<<"Report", " ", "by", " ", "fclones", " ">> \o header.version, color)
    \o write_header_line(<<"Timestamp", ":", " ">> \o format_timestamp(header.timestamp), color)
    \o write_header_line(<<"Command", ":", " ">> \o command, color)
    \o (IF header.stats # None
        THEN write_header_line(<<"Found", " ">> \o u64_display(header.stats.group_count)
                               \o <<" ", "file", " ", "groups">>, color)
             \o write_header_line(
                    u64_display(header.stats.redundant_file_size) \o <<" ", "B", " ", "(">>
                    \o FileLenDisplay(header.stats.redundant_file_size)
                    \o <<")", " ", "in", " ">>
                    \o u64_display(header.stats.redundant_file_count)
                    \o <<" ", "redundant", " ", "files", " ", "can", " ", "be", " ", "removed">>,
                    color)
        ELSE <<>>)
    \o Concat([i \in 1..Len(groups) |-> write_group_text(groups[i], color)])

write_as_fdupes(header, groups) ==
    Concat([i \in 1..Len(groups) |->
              Concat([j \in 1..Len(groups[i].files) |->
                        PathDisplay(groups[i].files[j]) \o <<"\n">>]) \o <<"\n">>])

\* csv::Writer with QuoteStyle::Necessary
RECURSIVE CsvEscape(_)
CsvEscape(s) ==
    IF s = <<>> THEN <<>>
    ELSE (IF Head(s) = "\"" THEN <<"\"", "\"">> ELSE <<Head(s)>>) \o CsvEscape(Tail(s))

csv_field(s) ==
    IF s = <<>> \/ \E i \in 1..Len(s) : s[i] \in {",", "\"", "\n", "\r"}
    THEN <<"\"">> \o CsvEscape(s) \o <<"\"">>
    ELSE s

csv_record(fields) ==
    JoinWith([i \in 1..Len(fields) |-> csv_field(fields[i])], <<",">>) \o <<"\n">>

write_as_csv(header, groups) ==
    csv_record(<<<<"size">>, <<"hash">>, <<"count">>, <<"files">>>>)
    \o Concat([i \in 1..Len(groups) |->
                 csv_record(<<u64_display(groups[i].file_len),
                              FileHashDisplay(groups[i].file_hash),
                              u64_display(usize_of(Len(groups[i].files)))>>
                            \o [j \in 1..Len(groups[i].files) |->
                                  PathDisplay(groups[i].files[j])])])

\* serde_json: string literals, arrays and objects as to_writer_pretty
\* lays them out (every line break without its indentation)
RECURSIVE JsonEscape(_)
JsonEscape(s) ==
    IF s = <<>> THEN <<>>
    ELSE IF SpanNotIn(s, {"\"", "\\", "\n", "\r", "\t"}) > 0
    THEN Take(s, SpanNotIn(s, {"\"", "\\", "\n", "\r", "\t"}))
         \o JsonEscape(Drop(s, SpanNotIn(s, {"\"", "\\", "\n", "\r", "\t"})))
    ELSE (CASE Head(s) = "\"" -> <<"\\", "\"">>
            [] Head(s) = "\\" -> <<"\\", "\\">>
            [] Head(s) = "\n" -> <<"\\", "n">>
            [] Head(s) = "\r" -> <<"\\", "r">>
            [] Head(s) = "\t" -> <<"\\", "t">>
            [] OTHER -> <<Head(s)>>) \o JsonEscape(Tail(s))

json_string(s) == <<"\"">> \o JsonEscape(s) \o <<"\"">>

json_array(items) ==
    IF items = <<>> THEN <<"[", "]">>
    ELSE <<"[", "\n">> \o JoinWith(items, <<",", "\n">>) \o <<"\n", "]">>

json_object(keys, values) ==
    <<"{", "\n">>
    \o JoinWith([i \in 1..Len(keys) |-> json_string(<<keys[i]>>) \o <<":", " ">> \o values[i]],
                <<",", "\n">>)
    \o <<"\n", "}">>

\* chrono's Serialize of DateTime: RFC 3339 with the nanoseconds
to_rfc3339(t) ==
    Take(t.datetime, 10) \o <<"T">> \o Drop(t.datetime, 11) \o <<".">> \o u64_display(t.nanos)
    \o Take(t.offset, 3) \o <<":">> \o Drop(t.offset, 3)

\* #[derive(Serialize)] of FileStats, ReportHeader, FileGroup, SerializableReport
serialize_stats(st) ==
    IF st = None THEN <<"null">>
    ELSE json_object(<<"group_count", "redundant_file_count", "redundant_file_size">>,
                     <<u64_display(st.group_count), u64_display(st.redundant_file_count),
                       u64_display(st.redundant_file_size)>>)

serialize_header(h) ==
    json_object(<<"version", "timestamp", "command", "stats">>,
                <<json_string(h.version), json_string(to_rfc3339(h.timestamp)),
                  json_array([i \in 1..Len(h.command) |-> json_string(h.command[i])]),
                  serialize_stats(h.stats)>>)

serialize_group(g) ==
    json_object(<<"file_len", "file_hash", "files">>,
                <<u64_display(g.file_len), json_string(FileHashDisplay(g.file_hash)),
                  json_array([i \in 1..Len(g.files) |-> json_string(PathDisplay(g.files[i]))])>>)

write_as_json(header, groups) ==
    json_object(<<"header", "groups">>,
                <<serialize_header(header),
                  json_array([i \in 1..Len(groups) |-> serialize_group(groups[i])])>>)

\* ReportWriter::write
write(format, header, groups, color) ==
    CASE format = "Default" -> write_as_text(header, groups, color)
      [] format = "Fdupes" -> write_as_fdupes(header, groups)
      [] format = "Csv" -> write_as_csv(header, groups)
      [] format = "Json" -> write_as_json(header, groups)

\* ------------------------------------------------------- TextReportIterator
\* io::Error
Error(kind, msg) == [kind |-> kind, msg |-> msg]

NoMatch == [ok |-> FALSE, caps |-> <<>>]

\* Regex ^([a-f0-9]{32}), ([0-9]+) B [^*]* \* ([0-9]+):
\* [^*]* is followed by " * ": it ends right before the first "*" of the
\* rest, and the symbol before that "*" is the blank of " \* ".
GROUP_HEADER_RE(s) ==
    LET Count(r2, n2, r4, n4) ==
            IF n4 > 0 /\ starts_with(Drop(r4, n4), <<":">>)
            THEN [ok |-> TRUE, caps |-> <<Take(s, HashHexLen), Take(r2, n2), Take(r4, n4)>>]
            ELSE NoMatch
        Star(r2, n2, r3, k) ==
            IF k >= 1 /\ r3[k] = " " /\ starts_with(Drop(r3, k), <<"*", " ">>)
            THEN Count(r2, n2, Drop(r3, k + 2), SpanIn(Drop(r3, k + 2), Digits))
            ELSE NoMatch
        Size(r2, n2) ==
            IF n2 > 0 /\ starts_with(Drop(r2, n2), <<" ", "B", " ">>)
            THEN Star(r2, n2, Drop(r2, n2 + 3), SpanNotIn(Drop(r2, n2 + 3), {"*"}))
            ELSE NoMatch
    IN  IF /\ Len(s) >= HashHexLen
           /\ \A i \in 1..HashHexLen : s[i] \in HexLower
           /\ starts_with(Drop(s, HashHexLen), <<",", " ">>)
        THEN Size(Drop(s, HashHexLen + 2), SpanIn(Drop(s, HashHexLen + 2), Digits))
        ELSE NoMatch

\* The iterator is [stream, line_buf, stopped_on_error].
TextReportIterator_new(input) ==
    [stream |-> input, line_buf |-> <<>>, stopped_on_error |-> FALSE]

RECURSIVE read_first_non_comment_line(_)
read_first_non_comment_line(it) ==
    LET Got(rl, it1, line) ==
            IF line = <<>> THEN [it |-> it1, some |-> FALSE, line |-> <<>>]
            ELSE IF ~starts_with(line, <<"#">>)
            THEN [it |-> it1, some |-> TRUE, line |-> trim(rl.line)]
            ELSE read_first_non_comment_line(it1)
        Read(rl) == Got(rl, [it EXCEPT !.stream = rl.rest, !.line_buf = rl.line], trim(rl.line))
    IN  Read(read_line(it.stream))

\* tag "none": Ok(None); "header": Ok(Some(header)); "err": Err(error);
\* "panic": an unwrap() of a failed number parse
read_group_header(it) ==
    LET Parsed(l, captures, file_len, count) ==
            IF ~file_len.ok \/ ~count.ok THEN [it |-> l.it, tag |-> "panic"]
            ELSE [it |-> l.it, tag |-> "header",
                  header |-> [count |-> count.v, file_len |-> file_len.v,
                              file_hash |-> u128_from_str_radix(captures.caps[1])]]
        Matched(l, captures) ==
            IF ~captures.ok
            THEN [it |-> l.it, tag |-> "err",
                  err |-> Error("InvalidData", <<"Malformed group header: ">> \o l.line)]
            ELSE Parsed(l, captures, parse_u64(captures.caps[2]), parse_usize(captures.caps[3]))
        Got(l) ==
            IF ~l.some THEN [it |-> l.it, tag |-> "none"] ELSE Matched(l, GROUP_HEADER_RE(l.line))
    IN  Got(read_first_non_comment_line(it))

\* Path::from(path_str.trim())
\* a path line stripped of its indentation only
path_of_line_trim_start(path_str) == PathFrom(trim_start(path_str))

\* paths.push(Path::from(path_str.trim()))
path_of_line(path_str) == PathFrom(trim(path_str))

\* the loop of read_paths, with `count` iterations left and `paths` read so far
RECURSIVE read_paths_loop(_, _, _)
read_paths_loop(it, count, paths) ==
    LET Got(rl, it1, path_str) ==
            IF rl.n = 0
            THEN [it |-> it1, ok |-> FALSE,
                  err |-> Error("UnexpectedEof", <<"Unexpected end of file.">>)]
            ELSE IF ~starts_with(path_str, <<" ", " ", " ", " ">>) \/ trim(path_str) = <<>>
            THEN [it |-> it1, ok |-> FALSE,
                  err |-> Error("InvalidData", <<"Path expected: ">> \o path_str)]
            ELSE read_paths_loop(it1, Dec(count), Append(paths, path_of_line(path_str)))
        Read(rl) == Got(rl, [it EXCEPT !.stream = rl.rest, !.line_buf = rl.line], rl.line)
    IN  IF IsZero(count) THEN [it |-> it, ok |-> TRUE, paths |-> paths]
        ELSE Read(read_line(it.stream))

read_paths(it, count) == read_paths_loop(it, count, <<>>)

\* what next() returns
ResEnd == [tag |-> "end"]
ResPanic == [tag |-> "panic"]
ResErr(e) == [tag |-> "err", err |-> e]
ResGroup(g) == [tag |-> "group", group |-> g]

\* <TextReportIterator as FallibleIterator>::next
TextReportIterator_next(it) ==
    LET AfterPaths(h, p) ==
            IF p.ok
            THEN [it |-> p.it,
                  res |-> ResGroup([file_len |-> h.header.file_len,
                                    file_hash |-> h.header.file_hash,
                                    files |-> p.paths])]
            ELSE [it |-> p.it, res |-> ResErr(p.err)]
        AfterHeader(h) ==
            CASE h.tag = "header" -> AfterPaths(h, read_paths(h.it, h.header.count))
              [] h.tag = "none" -> [it |-> h.it, res |-> ResEnd]
              [] h.tag = "err" ->
                    [it |-> [h.it EXCEPT !.stopped_on_error = TRUE], res |-> ResErr(h.err)]
              [] OTHER -> [it |-> h.it, res |-> ResPanic]
    IN  IF it.stopped_on_error THEN [it |-> it, res |-> ResEnd]
        ELSE AfterHeader(read_group_header(it))

\* --------------------------------------------------------- TextReportReader
\* (.*) : all up to the end of the line
DotStar(s) == Take(s, SpanNotIn(s, {"\n"}))

\* Regex ^# Report by fclones ([0-9]+\.[0-9]+\.[0-9]+)
VERSION_RE(s) ==
    LET p == <<"#", " ", "Report", " ", "by", " ", "fclones", " ">>
        Third(r, n, c) ==
            IF c > 0 THEN [ok |-> TRUE, caps |-> <<Take(r, n + c)>>] ELSE NoMatch
        Second(r, a, b) ==
            IF b > 0 /\ starts_with(Drop(r, a + 1 + b), <<".">>)
            THEN Third(r, a + 1 + b + 1, SpanIn(Drop(r, a + 1 + b + 1), Digits))
            ELSE NoMatch
        First(r, a) ==
            IF a > 0 /\ starts_with(Drop(r, a), <<".">>)
            THEN Second(r, a, SpanIn(Drop(r, a + 1), Digits))
            ELSE NoMatch
    IN  IF starts_with(s, p) THEN First(Drop(s, Len(p)), SpanIn(Drop(s, Len(p)), Digits))
        ELSE NoMatch

\* Regex ^# Timestamp: (.*)
TIMESTAMP_RE(s) ==
    LET p == <<"#", " ", "Timestamp", ":", " ">> IN
    IF starts_with(s, p) THEN [ok |-> TRUE, caps |-> <<DotStar(Drop(s, Len(p)))>>] ELSE NoMatch

\* Regex ^# Command: (.*)
COMMAND_RE(s) ==
    LET p == <<"#", " ", "Command", ":", " ">> IN
    IF starts_with(s, p) THEN [ok |-> TRUE, caps |-> <<DotStar(Drop(s, Len(p)))>>] ELSE NoMatch

\* Regex ^# Found ([0-9]+) file groups
GROUP_COUNT_RE(s) ==
    LET p == <<"#", " ", "Found", " ">>
        Number(r, n) ==
            IF n > 0 /\ starts_with(Drop(r, n), <<" ", "file", " ", "groups">>)
            THEN [ok |-> TRUE, caps |-> <<Take(r, n)>>]
            ELSE NoMatch
    IN  IF starts_with(s, p) THEN Number(Drop(s, Len(p)), SpanIn(Drop(s, Len(p)), Digits))
        ELSE NoMatch

\* Regex ^# ([0-9]+) B \([^)]+\) in ([0-9]+) redundant files can be removed
STATS_RE(s) ==
    LET Files(r, n, r3, m) ==
            IF /\ m > 0
               /\ starts_with(Drop(r3, m),
                              <<" ", "redundant", " ", "files", " ", "can", " ", "be", " ",
                                "removed">>)
            THEN [ok |-> TRUE, caps |-> <<Take(r, n), Take(r3, m)>>]
            ELSE NoMatch
        Human(r, n, r2, k) ==
            IF k > 0 /\ starts_with(Drop(r2, k), <<")", " ", "in", " ">>)
            THEN Files(r, n, Drop(r2, k + 4), SpanIn(Drop(r2, k + 4), Digits))
            ELSE NoMatch
        Size(r, n) ==
            IF n > 0 /\ starts_with(Drop(r, n), <<" ", "B", " ", "(">>)
            THEN Human(r, n, Drop(r, n + 4), SpanNotIn(Drop(r, n + 4), {")"}))
            ELSE NoMatch
    IN  IF starts_with(s, <<"#", " ">>) THEN Size(Drop(s, 2), SpanIn(Drop(s, 2), Digits))
        ELSE NoMatch

\* Regex::captures of the header regex named `regex`
captures_of(regex, s) ==
    CASE regex = "VERSION_RE" -> VERSION_RE(s)
      [] regex = "TIMESTAMP_RE" -> TIMESTAMP_RE(s)
      [] regex = "COMMAND_RE" -> COMMAND_RE(s)
      [] regex = "GROUP_COUNT_RE" -> GROUP_COUNT_RE(s)
      [] regex = "STATS_RE" -> STATS_RE(s)

\* TextReportReader::read_extract: one line is read, the captures of `regex`
\* on the trimmed line are returned
read_extract(stream, regex, msg) ==
    LET Matched(rl, captures) ==
            IF captures.ok THEN [ok |-> TRUE, v |-> captures.caps, stream |-> rl.rest]
            ELSE [ok |-> FALSE, err |-> Error("InvalidData", msg), stream |-> rl.rest]
        Read(rl) == Matched(rl, captures_of(regex, trim(rl.line)))
    IN  Read(read_line(stream))

HeaderErr(e, stream) == [ok |-> FALSE, err |-> e, stream |-> stream]

\* <TextReportReader as ReportReader>::read_header, with the stream it leaves
TextReportReader_read_header(stream0) ==
    LET Counts(version, timestamp, command, group_count, stats_line,
               redundant_file_size, redundant_file_count) ==
            IF ~redundant_file_size.ok
            THEN HeaderErr(Error("InvalidData", "Malformed header: Failed to parse file size"),
                           stats_line.stream)
            ELSE IF ~redundant_file_count.ok
            THEN HeaderErr(Error("InvalidData", "Malformed header: Failed to parse file count"),
                           stats_line.stream)
            ELSE [ok |-> TRUE,
                  v |-> [version |-> version.v[1],
                         timestamp |-> timestamp.v,
                         command |-> command.v,
                         stats |-> [group_count |-> group_count.v,
                                    redundant_file_count |-> redundant_file_count.v,
                                    redundant_file_size |-> redundant_file_size.v]],
                  stream |-> stats_line.stream]
        StatsLine(version, timestamp, command, group_count, stats_line) ==
            IF ~stats_line.ok THEN HeaderErr(stats_line.err, stats_line.stream)
            ELSE Counts(version, timestamp, command, group_count, stats_line,
                        parse_u64(stats_line.v[1]), parse_usize(stats_line.v[2]))
        GroupCount(version, timestamp, command, gc_str, group_count) ==
            IF ~group_count.ok
            THEN HeaderErr(Error("InvalidData", "Malformed header: Failed to parse group count"),
                           gc_str.stream)
            ELSE StatsLine(version, timestamp, command, group_count,
                           read_extract(gc_str.stream, "STATS_RE",
                                        "Malformed header: Missing file statistics line"))
        GroupCountLine(version, timestamp, command, gc_str) ==
            IF ~gc_str.ok THEN HeaderErr(gc_str.err, gc_str.stream)
            ELSE GroupCount(version, timestamp, command, gc_str, parse_usize(gc_str.v[1]))
        Command(version, timestamp, cmd_str, command) ==
            IF ~command.ok
            THEN HeaderErr(Error("InvalidData",
                                 "Malformed header: Failed to parse command arguments"),
                           cmd_str.stream)
            ELSE GroupCountLine(version, timestamp, command,
                                read_extract(cmd_str.stream, "GROUP_COUNT_RE",
                                             "Malformed header: Missing group count"))
        CommandLine(version, timestamp, cmd_str) ==
            IF ~cmd_str.ok THEN HeaderErr(cmd_str.err, cmd_str.stream)
            ELSE Command(version, timestamp, cmd_str, shell_split(cmd_str.v[1]))
        Timestamp(version, ts_str, timestamp) ==
            IF ~timestamp.ok
            THEN HeaderErr(Error("InvalidData", "Malformed header: Failed to parse timestamp"),
                           ts_str.stream)
            ELSE CommandLine(version, timestamp,
                             read_extract(ts_str.stream, "COMMAND_RE",
                                          "Malformed header: Missing command"))
        TimestampLine(version, ts_str) ==
            IF ~ts_str.ok THEN HeaderErr(ts_str.err, ts_str.stream)
            ELSE Timestamp(version, ts_str, parse_timestamp(ts_str.v[1]))
        Version(version) ==
            IF ~version.ok THEN HeaderErr(version.err, version.stream)
            ELSE TimestampLine(version,
                               read_extract(version.stream, "TIMESTAMP_RE",
                                            "Malformed header: Missing timestamp"))
    IN  Version(read_extract(stream0, "VERSION_RE", "Malformed header: Missing fclones version"))

\* <TextReportReader as ReportReader>::read_groups
TextReportReader_read_groups(stream) == TextReportIterator_new(stream)

\* --------------------------------------------------------- JsonReportReader
\* serde_json's parser.  A JSON value is [t |-> "str", v |-> symbols],
\* [t |-> "num", v |-> digits], [t |-> "null"], [t |-> "arr", v |-> values] or
\* [t |-> "obj", k |-> keys, v |-> values]; `next` is the position after it.
JsonFail == [ok |-> FALSE]

SkipWs(s, i) == i + SpanIn(Drop(s, i - 1), WhiteSpace)

RECURSIVE JsonStringFrom(_, _, _)
JsonStringFrom(s, i, acc) ==
    IF i > Len(s) THEN JsonFail
    ELSE IF SpanNotIn(Drop(s, i - 1), {"\"", "\\", "\n", "\r", "\t"}) > 0
    THEN JsonStringFrom(s, i + SpanNotIn(Drop(s, i - 1), {"\"", "\\", "\n", "\r", "\t"}),
                        acc \o SubSeq(s, i, i - 1 + SpanNotIn(Drop(s, i - 1),
                                                              {"\"", "\\", "\n", "\r", "\t"})))
    ELSE IF s[i] = "\"" THEN [ok |-> TRUE, v |-> [t |-> "str", v |-> acc], next |-> i + 1]
    ELSE IF s[i] \in {"\n", "\r", "\t"} THEN JsonFail
    ELSE IF s[i] # "\\" THEN JsonStringFrom(s, i + 1, Append(acc, s[i]))
    ELSE IF i + 1 > Len(s) THEN JsonFail
    ELSE CASE s[i + 1] \in {"\"", "\\", "/"} -> JsonStringFrom(s, i + 2, Append(acc, s[i + 1]))
           [] s[i + 1] = "n" -> JsonStringFrom(s, i + 2, Append(acc, "\n"))
           [] s[i + 1] = "r" -> JsonStringFrom(s, i + 2, Append(acc, "\r"))
           [] s[i + 1] = "t" -> JsonStringFrom(s, i + 2, Append(acc, "\t"))
           [] OTHER -> JsonFail

RECURSIVE JsonValue(_, _)
RECURSIVE JsonArrayItems(_, _, _)
RECURSIVE JsonObjectMembers(_, _, _, _)
RECURSIVE JsonMember(_, _)

JsonValue(s, i0) ==
    LET Number(i, n) ==
            IF s[i] = "0" /\ n > 1 THEN JsonFail
            ELSE [ok |-> TRUE, v |-> [t |-> "num", v |-> SubSeq(s, i, i + n - 1)], next |-> i + n]
        Array(i, j) ==
            IF j <= Len(s) /\ s[j] = "]"
            THEN [ok |-> TRUE, v |-> [t |-> "arr", v |-> <<>>], next |-> j + 1]
            ELSE JsonArrayItems(s, i + 1, <<>>)
        Object(i, j) ==
            IF j <= Len(s) /\ s[j] = "}"
            THEN [ok |-> TRUE, v |-> [t |-> "obj", k |-> <<>>, v |-> <<>>], next |-> j + 1]
            ELSE JsonObjectMembers(s, i + 1, <<>>, <<>>)
        At(i) ==
            IF i > Len(s) THEN JsonFail
            ELSE CASE s[i] = "\"" -> JsonStringFrom(s, i + 1, <<>>)
                   [] s[i] \in Digits -> Number(i, SpanIn(Drop(s, i - 1), Digits))
                   [] s[i] = "null" -> [ok |-> TRUE, v |-> [t |-> "null"], next |-> i + 1]
                   [] s[i] = "[" -> Array(i, SkipWs(s, i + 1))
                   [] s[i] = "{" -> Object(i, SkipWs(s, i + 1))
                   [] OTHER -> JsonFail
    IN  At(SkipWs(s, i0))

JsonArrayItems(s, i, acc) ==
    LET Item(item) ==
            IF ~item.ok \/ SkipWs(s, item.next) > Len(s) THEN JsonFail
            ELSE IF s[SkipWs(s, item.next)] = ","
            THEN JsonArrayItems(s, SkipWs(s, item.next) + 1, Append(acc, item.v))
            ELSE IF s[SkipWs(s, item.next)] = "]"
            THEN [ok |-> TRUE, v |-> [t |-> "arr", v |-> Append(acc, item.v)],
                  next |-> SkipWs(s, item.next) + 1]
            ELSE JsonFail
    IN  Item(JsonValue(s, i))

\* one `"key": value` member at position k0: its key, its value and the
\* position of what follows it
JsonMember(s, k0) ==
    LET Value(key, val) ==
            IF ~val.ok THEN JsonFail
            ELSE [ok |-> TRUE, key |-> key.v.v, val |-> val.v, next |-> SkipWs(s, val.next)]
        Key(key) ==
            IF ~key.ok \/ SkipWs(s, key.next) > Len(s) \/ s[SkipWs(s, key.next)] # ":"
            THEN JsonFail
            ELSE Value(key, JsonValue(s, SkipWs(s, key.next) + 1))
    IN  IF k0 > Len(s) \/ s[k0] # "\"" THEN JsonFail
        ELSE Key(JsonStringFrom(s, k0 + 1, <<>>))

JsonObjectMembers(s, i, keys, vals) ==
    LET Member(m) ==
            IF ~m.ok \/ m.next > Len(s) THEN JsonFail
            ELSE IF s[m.next] = ","
            THEN JsonObjectMembers(s, m.next + 1, Append(keys, m.key), Append(vals, m.val))
            ELSE IF s[m.next] = "}"
            THEN [ok |-> TRUE,
                  v |-> [t |-> "obj", k |-> Append(keys, m.key), v |-> Append(vals, m.val)],
                  next |-> m.next + 1]
            ELSE JsonFail
    IN  Member(JsonMember(s, SkipWs(s, i)))

\* the whole input is one value, white space may follow it
json_from_reader(s) ==
    LET Whole(v) == IF v.ok /\ SkipWs(s, v.next) > Len(s) THEN v ELSE JsonFail
    IN  Whole(JsonValue(s, 1))

\* #[derive(Deserialize)]: field `key` of object `o`
HasField(o, key) == \E i \in 1..Len(o.k) : o.k[i] = <<key>>
Field(o, key) == o.v[CHOOSE i \in 1..Len(o.k) : o.k[i] = <<key>>]
IsObj(v, keys) == v.t = "obj" /\ \A i \in 1..Len(keys) : HasField(v, keys[i])
IsStrArr(v) == v.t = "arr" /\ \A i \in 1..Len(v.v) : v.v[i].t = "str"
IsU64(v) == v.t = "num" /\ parse_u64(v.v).ok

\* DateTime::parse_from_rfc3339 of the text to_rfc3339 writes
Rfc3339Shape ==
    <<"d","d","d","d","-","d","d","-","d","d","T","d","d",":","d","d",":","d","d",
      ".","d","d","d","d","d","d","d","d","d","s","d","d",":","d","d">>

parse_rfc3339(s) ==
    [datetime |-> Take(s, 10) \o <<" ">> \o SubSeq(s, 12, 19),
     nanos |-> [i \in 1..9 |-> DigitVal(s[20 + i])],
     offset |-> SubSeq(s, 30, 32) \o SubSeq(s, 34, 35)]

StatsValid(v) ==
    \/ v.t = "null"
    \/ /\ IsObj(v, <<"group_count", "redundant_file_count", "redundant_file_size">>)
       /\ IsU64(Field(v, "group_count"))
       /\ IsU64(Field(v, "redundant_file_count"))
       /\ IsU64(Field(v, "redundant_file_size"))

deserialize_stats(v) ==
    IF v.t = "null" THEN None
    ELSE [group_count |-> parse_usize(Field(v, "group_count").v).v,
          redundant_file_count |-> parse_usize(Field(v, "redundant_file_count").v).v,
          redundant_file_size |-> parse_u64(Field(v, "redundant_file_size").v).v]

HeaderValid(v) ==
    /\ IsObj(v, <<"version", "timestamp", "command">>)
    /\ Field(v, "version").t = "str"
    /\ Field(v, "timestamp").t = "str"
    /\ MatchesShape(Field(v, "timestamp").v, Rfc3339Shape)
    /\ IsStrArr(Field(v, "command"))
    /\ HasField(v, "stats") => StatsValid(Field(v, "stats"))

deserialize_header(v) ==
    [version |-> Field(v, "version").v,
     timestamp |-> parse_rfc3339(Field(v, "timestamp").v),
     command |-> [i \in 1..Len(Field(v, "command").v) |-> Field(v, "command").v[i].v],
     stats |-> IF HasField(v, "stats") THEN deserialize_stats(Field(v, "stats")) ELSE None]

GroupValid(v) ==
    /\ IsObj(v, <<"file_len", "file_hash", "files">>)
    /\ IsU64(Field(v, "file_len"))
    /\ Field(v, "file_hash").t = "str"
    /\ Len(Field(v, "file_hash").v) = HashHexLen
    /\ \A i \in 1..HashHexLen : Field(v, "file_hash").v[i] \in HexLower
    /\ IsStrArr(Field(v, "files"))

\* FileGroup<String>: the files are still strings
deserialize_group(v) ==
    [file_len |-> parse_u64(Field(v, "file_len").v).v,
     file_hash |-> u128_from_str_radix(Field(v, "file_hash").v),
     files |-> [i \in 1..Len(Field(v, "files").v) |-> Field(v, "files").v[i].v]]

ReportValid(v) ==
    /\ IsObj(v, <<"header", "groups">>)
    /\ HeaderValid(Field(v, "header"))
    /\ Field(v, "groups").t = "arr"
    /\ \A i \in 1..Len(Field(v, "groups").v) : GroupValid(Field(v, "groups").v[i])

\* JsonReportReader::new: serde_json::from_reader into a DeserializedReport
deserialize_report(v) ==
    [header |-> deserialize_header(Field(v, "header")),
     groups |-> [i \in 1..Len(Field(v, "groups").v) |->
                   deserialize_group(Field(v, "groups").v[i])]]

JsonReportReader_new(stream) ==
    LET Parsed(doc) ==
            IF doc.ok /\ ReportValid(doc.v)
            THEN [ok |-> TRUE, report |-> deserialize_report(doc.v)]
            ELSE [ok |-> FALSE,
                  err |-> Error("InvalidData", "Failed to deserialize JSON report")]
    IN  Parsed(json_from_reader(stream))

\* <JsonReportReader as ReportReader>::read_header
JsonReportReader_read_header(report) == [ok |-> TRUE, v |-> report.header]

\* the groups of the report handed out last to first
JsonReportReader_read_groups_reversed(report) ==
    [i \in 1..Len(report.groups) |->
       [file_len |-> report.groups[Len(report.groups) + 1 - i].file_len,
        file_hash |-> report.groups[Len(report.groups) + 1 - i].file_hash,
        files |-> [j \in 1..Len(report.groups[Len(report.groups) + 1 - i].files) |->
                     PathFrom(report.groups[Len(report.groups) + 1 - i].files[j])]]]

\* <JsonReportReader as ReportReader>::read_groups: the groups still to yield
JsonReportReader_read_groups(report) ==
    [i \in 1..Len(report.groups) |->
       [file_len |-> report.groups[i].file_len,
        file_hash |-> report.groups[i].file_hash,
        files |-> [j \in 1..Len(report.groups[i].files) |->
                     PathFrom(report.groups[i].files[j])]]]

\* fallible_iterator::convert(iter).next()
JsonIterator_next(items) ==
    IF items = <<>> THEN [items |-> items, res |-> ResEnd]
    ELSE [items |-> Tail(items), res |-> ResGroup(Head(items))]

\* ------------------------------------------------------------- open_report
\* the reader is [kind |-> "text", stream |-> ..] or [kind |-> "json", report |-> ..]
open_report(r) ==
    LET preview == r
        Json(j) ==
            IF j.ok THEN [ok |-> TRUE, reader |-> [kind |-> "json", report |-> j.report]]
            ELSE [ok |-> FALSE, err |-> j.err]
    IN
    IF starts_with(preview, <<"{">>) THEN Json(JsonReportReader_new(r))
    ELSE IF starts_with(preview, <<"#">>)
    THEN [ok |-> TRUE, reader |-> [kind |-> "text", stream |-> r]]
    ELSE [ok |-> FALSE, err |-> Error("InvalidData", "Unknown report format.")]

\* ================================================================== state
VARIABLES
    header,     \* the ReportHeader handed to the writer
    groups,     \* the FileGroups handed to the writer
    format,     \* the OutputFormat handed to ReportWriter::write
    color,      \* ReportWriter.color
    file,       \* the bytes of the report file
    written,    \* whether the writer has run
    reader,     \* the ReportReader: kind "none", "failed", "text", "json", "moved"
    headers,    \* what the calls of read_header returned, in order
    iter,       \* the GroupIterator: kind "none", "text", "json", "panicked"
    results,    \* what the calls of next returned, in order
    body,       \* the lines of a hand-made report body, without line ends
    eol,        \* the line end of the hand-made report body
    args,       \* the GroupConfig main passes to run_group
    config,     \* run_group's own (mutable) copy of it
    pc,         \* the position of run_group
    log,        \* what run_group has logged, in order
    effects,    \* the calls run_group has made, in order
    result,     \* what the command (run_group, run_dedupe) returned
    command,        \* the command main runs
    exit_status,    \* the exit status of the process, once it has ended
    dedupe_config,  \* run_dedupe's own (mutable) copy of its configuration
    groups_result,  \* run_dedupe's local `result`: the error met while reading groups
    handed,         \* the groups that came through run_dedupe's iterator chain
    ticks           \* the calls of progress.tick()

reportVars == <<header, groups, format, color, file, written, reader, headers, iter, results,
                body, eol>>

groupVars == <<args, config, pc, log, effects, result>>

dedupeVars == <<command, exit_status, dedupe_config, groups_result, handed, ticks>>

\* ----------------------------------------------------------- input pools
Hash1 == <<0,0,1,1,2,2,3,3,4,4,5,5,6,6,7,7,8,8,9,9,10,10,11,11,12,12,13,13,14,14,15,15>>
Hash2 == Rep(0, 13) \o Rep(5, 9) \o Rep(15, 10)

GroupPool ==
    { [file_len |-> <<1, 0, 0>>, file_hash |-> Hash1,
       files |-> <<PathFrom(<<"a">>), PathFrom(<<"/", "b", " ", "c">>)>>],
      [file_len |-> <<4, 0, 0, 0, 0>>, file_hash |-> Hash2,
       files |-> <<PathFrom(<<"c", "/", "d">>)>>],
      [file_len |-> <<4, 0>>, file_hash |-> Hash2, files |-> <<PathFrom(<<"d", " ">>)>>],
      [file_len |-> <<0>>, file_hash |-> Hash1, files |-> <<>>] }

SeqsUpTo(S, n) == UNION { [1..k -> S] : k \in 0..n }

DateTime1 == <<"2","0","2","1","-","0","8","-","2","7"," ","1","2",":","1","1",":","2","3">>

TimestampPool ==
    { [datetime |-> DateTime1, nanos |-> <<4, 5, 6, 0, 0, 0, 0, 0, 0>>,
       offset |-> <<"+", "0", "0", "0", "0">>],
      [datetime |-> DateTime1, nanos |-> <<2, 8, 5, 4, 0, 9, 8, 2, 4>>,
       offset |-> <<"+", "0", "2", "0", "0">>] }

CommandPool ==
    { <<<<"fclones">>, <<"find">>, <<".">>>>,
      <<<<"fclones">>, <<"group">>, <<"my", " ", "dir">>, <<"it", "'", "s">>>>,
      <<>> }

StatsPool ==
    { None,
      [group_count |-> <<4>>, redundant_file_count |-> <<2, 3, 4>>,
       redundant_file_size |-> <<1, 0, 0, 0>>] }

HeaderPool ==
    [version : {<<"0", ".", "1", "2", ".", "0">>}, timestamp : TimestampPool,
     command : CommandPool, stats : StatsPool]

Formats == {"Default", "Fdupes", "Csv", "Json"}

NoReader == [kind |-> "none"]
NoIter == [kind |-> "none"]

\* run_group is not running
GroupIdle ==
    /\ args = [stdin |-> TRUE, depth |-> None, paths |-> <<>>, output |-> None]
    /\ config = args
    /\ pc = "idle"
    /\ log = <<>>
    /\ effects = <<>>
    /\ result = None

\* run_dedupe and main are not running
DedupeIdle ==
    /\ command = "none"
    /\ exit_status = None
    /\ dedupe_config = None
    /\ groups_result = None
    /\ handed = <<>>
    /\ ticks = 0

\* ---------------------------------------------------------------- actions
Init ==
    /\ header \in HeaderPool
    /\ groups \in SeqsUpTo(GroupPool, MaxGroups)
    /\ format \in Formats
    /\ color \in BOOLEAN
    /\ file = <<>>
    /\ written = FALSE
    /\ reader = NoReader
    /\ headers = <<>>
    /\ iter = NoIter
    /\ results = <<>>
    /\ body = <<>>
    /\ eol = <<"\n">>
    /\ GroupIdle
    /\ DedupeIdle

\* ReportWriter::new(output, color).write(format, header, groups)
Write ==
    /\ ~written
    /\ file' = write(format, header, groups, color)
    /\ written' = TRUE
    /\ UNCHANGED <<header, groups, format, color, reader, headers, iter, results, body, eol>>
    /\ UNCHANGED groupVars
    /\ UNCHANGED dedupeVars

\* open_report(input)
OpenReport ==
    /\ written
    /\ reader = NoReader
    /\ iter = NoIter
    /\ LET Opened(r) ==
               IF r.ok THEN r.reader @@ [via |-> "open_report"]
               ELSE [kind |-> "failed", err |-> r.err, via |-> "open_report"]
       IN  reader' = Opened(open_report(file))
    /\ UNCHANGED <<header, groups, format, color, file, written, headers, iter, results,
                   body, eol>>
    /\ UNCHANGED groupVars
    /\ UNCHANGED dedupeVars

\* TextReportReader::new(BufReader::new(input))
NewTextReader ==
    /\ written
    /\ reader = NoReader
    /\ iter = NoIter
    /\ reader' = [kind |-> "text", stream |-> file, via |-> "new"]
    /\ UNCHANGED <<header, groups, format, color, file, written, headers, iter, results,
                   body, eol>>
    /\ UNCHANGED groupVars
    /\ UNCHANGED dedupeVars

\* JsonReportReader::new(input)
NewJsonReader ==
    /\ written
    /\ reader = NoReader
    /\ iter = NoIter
    /\ LET Made(j) ==
               IF j.ok THEN [kind |-> "json", report |-> j.report, via |-> "new"]
               ELSE [kind |-> "failed", err |-> j.err, via |-> "new"]
       IN  reader' = Made(JsonReportReader_new(file))
    /\ UNCHANGED <<header, groups, format, color, file, written, headers, iter, results,
                   body, eol>>
    /\ UNCHANGED groupVars
    /\ UNCHANGED dedupeVars

\* reader.read_header()
ReadHeader ==
    /\ reader.kind \in {"text", "json"}
    /\ Len(headers) < MaxCalls
    /\ IF reader.kind = "text"
       THEN LET Got(r) ==
                    /\ reader' = [reader EXCEPT !.stream = r.stream]
                    /\ headers' = Append(headers, IF r.ok THEN [ok |-> TRUE, v |-> r.v]
                                                  ELSE [ok |-> FALSE, err |-> r.err])
            IN  Got(TextReportReader_read_header(reader.stream))
       ELSE /\ reader' = reader
            /\ headers' = Append(headers, JsonReportReader_read_header(reader.report))
    /\ UNCHANGED <<header, groups, format, color, file, written, iter, results, body, eol>>
    /\ UNCHANGED groupVars
    /\ UNCHANGED dedupeVars

\* reader.read_groups(): the boxed reader is consumed
ReadGroups ==
    /\ reader.kind \in {"text", "json"}
    /\ iter' = IF reader.kind = "text"
               THEN [kind |-> "text", it |-> TextReportReader_read_groups(reader.stream)]
               ELSE [kind |-> "json", items |-> JsonReportReader_read_groups(reader.report)]
    /\ reader' = [kind |-> "moved", via |-> reader.via]
    /\ UNCHANGED <<header, groups, format, color, file, written, headers, results, body, eol>>
    /\ UNCHANGED groupVars
    /\ UNCHANGED dedupeVars

\* group_iterator.next()
IterNext ==
    /\ iter.kind \in {"text", "json"}
    /\ Len(results) < MaxNextCalls
    /\ IF iter.kind = "text"
       THEN LET Got(r) ==
                    /\ iter' = IF r.res = ResPanic THEN [kind |-> "panicked"]
                               ELSE [kind |-> "text", it |-> r.it]
                    /\ results' = Append(results, r.res)
            IN  Got(TextReportIterator_next(iter.it))
       ELSE LET Got(r) ==
                    /\ iter' = [kind |-> "json", items |-> r.items]
                    /\ results' = Append(results, r.res)
            IN  Got(JsonIterator_next(iter.items))
    /\ UNCHANGED <<header, groups, format, color, file, written, reader, headers, body, eol>>
    /\ UNCHANGED groupVars
    /\ UNCHANGED dedupeVars

vars == <<reportVars, groupVars, dedupeVars>>

Next == Write \/ OpenReport \/ NewTextReader \/ NewJsonReader \/ ReadHeader \/ ReadGroups \/ IterNext

Spec == Init /\ [][Next]_vars

\* ------------------------------------------- hand-made text report bodies
HeaderLine(hash, len, count) ==
    FileHashDisplay(hash) \o <<",", " ">> \o len \o <<" ", "B", " ", "(">> \o len
    \o <<" ", "B", ")", " ", "*", " ">> \o count \o <<":">>

LinePool ==
    { HeaderLine(Hash1, <<"4">>, <<"2">>),
      HeaderLine(Hash2, <<"4">>, <<"1">>),
      HeaderLine(Hash2, <<"0">>, <<"0">>),
      HeaderLine(Hash1, Rep("9", 20), <<"1">>),
      <<"malformed", " ", "group", " ", "header", ":">>,
      <<" ", " ", " ", " ", "/", "file1">>,
      <<" ", " ", " ", " ", " ">>,
      <<"#", " ", "note">>,
      <<>> }

LF == <<"\n">>
CRLF == <<"\r", "\n">>

Encode(lines, ending) == Concat([i \in 1..Len(lines) |-> lines[i] \o ending])

DummyHeader ==
    [version |-> <<"0", ".", "1", "2", ".", "0">>,
     timestamp |-> [datetime |-> DateTime1, nanos |-> <<4, 5, 6, 0, 0, 0, 0, 0, 0>>,
                    offset |-> <<"+", "0", "0", "0", "0">>],
     command |-> <<<<"fclones">>, <<"find">>, <<".">>>>,
     stats |-> [group_count |-> <<4>>, redundant_file_count |-> <<2, 3, 4>>,
                redundant_file_size |-> <<1, 0, 0, 0>>]]

\* TextReportIterator::new(BufReader::new(input)) over a hand-made body
InitIter ==
    /\ body \in SeqsUpTo(LinePool, MaxLines)
    /\ eol \in {LF, CRLF}
    /\ file = Encode(body, eol)
    /\ written = TRUE
    /\ header = DummyHeader
    /\ groups = <<>>
    /\ format = "Default"
    /\ color = FALSE
    /\ reader = NoReader
    /\ headers = <<>>
    /\ iter = [kind |-> "text", it |-> TextReportIterator_new(file)]
    /\ results = <<>>
    /\ GroupIdle
    /\ DedupeIdle

NextIter == IterNext

SpecIter == InitIter /\ [][NextIter]_vars

\* open_report over input that need not come from the writer
ForeignCores ==
    { write_as_json(DummyHeader, <<>>),
      write_as_text(DummyHeader, <<>>, FALSE),
      <<"{", "x">>,
      <<"[", "]">>,
      <<"x">>,
      <<>> }

ForeignFiles ==
    { lead \o core : lead \in SeqsUpTo({" ", "\n", "\t"}, MaxLead), core \in ForeignCores }

InitOpen ==
    /\ file \in ForeignFiles
    /\ written = TRUE
    /\ header = DummyHeader
    /\ groups = <<>>
    /\ format = "Default"
    /\ color = FALSE
    /\ reader = NoReader
    /\ headers = <<>>
    /\ iter = NoIter
    /\ results = <<>>
    /\ body = <<>>
    /\ eol = LF
    /\ GroupIdle
    /\ DedupeIdle

NextOpen == OpenReport \/ ReadHeader \/ ReadGroups \/ IterNext

SpecOpen == InitOpen /\ [][NextOpen]_vars

\* ================================================================ run_group
\* the input roots and what fs::metadata says about each
RootPool == {"file1", "file2", "dir1", "missing"}

metadata(p) ==
    CASE p \in {"file1", "file2"} -> [ok |-> TRUE, is_dir |-> FALSE]
      [] p = "dir1" -> [ok |-> TRUE, is_dir |-> TRUE]
      [] OTHER -> [ok |-> FALSE, err |-> "No such file or directory (os error 2)"]

Some(v) == [some |-> v]

DepthPool == {None, Some(0), Some(1)}

OutputPool == {None, Some("report.txt")}

Ok == [ok |-> TRUE]
Err(message) == [ok |-> FALSE, message |-> message]

\* a retain closure that never raises access_error
retain_step_no_flag(acc, p, depth) ==
    IF metadata(p).ok /\ ~(metadata(p).is_dir /\ depth = Some(0))
    THEN [acc EXCEPT !.paths = Append(@, p)]
    ELSE acc

\* a retain closure that skips directories whatever the depth
retain_step_any_depth(acc, p, depth) ==
    CASE metadata(p).ok /\ metadata(p).is_dir ->
            [acc EXCEPT !.log = Append(@, [level |-> "warn", about |-> p])]
      [] ~metadata(p).ok ->
            [acc EXCEPT !.log = Append(@, [level |-> "err", about |-> p]),
                        !.access_error = TRUE]
      [] OTHER -> [acc EXCEPT !.paths = Append(@, p)]

\* the closure of config.paths.retain, applied to one path: the three match arms
retain_step(acc, p, depth) ==
    LET Arm(m) ==
            CASE m.ok /\ m.is_dir /\ depth = Some(0) ->
                    [acc EXCEPT !.log = Append(@, [level |-> "warn", about |-> p])]
              [] ~m.ok ->
                    [acc EXCEPT !.log = Append(@, [level |-> "err", about |-> p]),
                                !.access_error = TRUE]
              [] OTHER -> [acc EXCEPT !.paths = Append(@, p)]
    IN  Arm(metadata(p))

\* config.paths.retain(..): the paths in order, each tried once
RECURSIVE retain(_, _, _)
retain(paths, depth, acc) ==
    IF paths = <<>> THEN acc
    ELSE retain(Tail(paths), depth, retain_step(acc, Head(paths), depth))

InitGroup ==
    /\ args \in [stdin : BOOLEAN, depth : DepthPool, paths : SeqsUpTo(RootPool, MaxRoots),
                 output : OutputPool]
    /\ config = args
    /\ pc = "start"
    /\ log = <<>>
    /\ effects = <<>>
    /\ result = None
    /\ DedupeIdle
    /\ header = DummyHeader
    /\ groups = <<>>
    /\ format = "Default"
    /\ color = FALSE
    /\ file = <<>>
    /\ written = FALSE
    /\ reader = NoReader
    /\ headers = <<>>
    /\ iter = NoIter
    /\ results = <<>>
    /\ body = <<>>
    /\ eol = LF

\* run_group up to the thread pool: the check of the input paths
CheckPaths ==
    /\ pc = "start"
    /\ IF ~config.stdin
       THEN LET Checked(r) ==
                    /\ config' = [config EXCEPT !.paths = r.paths]
                    /\ log' = log \o r.log
                    /\ IF r.access_error
                       THEN /\ result' = Err("Some input paths could not be accessed.")
                            /\ pc' = "returned"
                       ELSE IF r.paths = <<>>
                       THEN /\ result' = Err("No input files.")
                            /\ pc' = "returned"
                       ELSE /\ result' = result
                            /\ pc' = "configure"
            IN  Checked(retain(config.paths, config.depth,
                               [paths |-> <<>>, log |-> <<>>, access_error |-> FALSE]))
       ELSE /\ pc' = "configure"
            /\ UNCHANGED <<config, log, result>>
    /\ UNCHANGED <<args, effects>>
    /\ UNCHANGED reportVars
    /\ UNCHANGED dedupeVars

\* configure_main_thread_pool(&config.thread_pool_sizes())
ConfigurePool ==
    /\ pc = "configure"
    /\ effects' = Append(effects, "configure_main_thread_pool")
    /\ pc' = "create"
    /\ UNCHANGED <<args, config, log, result>>
    /\ UNCHANGED reportVars
    /\ UNCHANGED dedupeVars

\* an early File::create(output) whose failure is not looked at
CreateOutput_unchecked ==
    /\ pc = "create"
    /\ IF config.output # None
       THEN \E created \in BOOLEAN :
               effects' = Append(effects, IF created THEN "File::create"
                                          ELSE "File::create failed")
       ELSE effects' = effects
    /\ pc' = "group"
    /\ UNCHANGED <<args, config, log, result>>
    /\ UNCHANGED reportVars
    /\ UNCHANGED dedupeVars

\* the early File::create(output); the file system decides whether it succeeds
CreateOutput ==
    /\ pc = "create"
    /\ IF config.output # None
       THEN \E created \in BOOLEAN :
               /\ effects' = Append(effects, IF created THEN "File::create"
                                             ELSE "File::create failed")
               /\ IF created
                  THEN /\ pc' = "group"
                       /\ result' = result
                  ELSE /\ pc' = "returned"
                       /\ result' = Err("Cannot create output file")
       ELSE /\ pc' = "group"
            /\ UNCHANGED <<effects, result>>
    /\ UNCHANGED <<args, config, log>>
    /\ UNCHANGED reportVars
    /\ UNCHANGED dedupeVars

\* log.info("Started grouping"); group_files(&config, log)
GroupFiles ==
    /\ pc = "group"
    /\ log' = Append(log, [level |-> "info", about |-> "Started grouping"])
    /\ effects' = Append(effects, "group_files")
    /\ \/ /\ pc' = "write"
          /\ result' = result
       \/ \E message \in {"", "group_files error"} :
             /\ pc' = "returned"
             /\ result' = Err(message)
    /\ UNCHANGED <<args, config>>
    /\ UNCHANGED reportVars
    /\ UNCHANGED dedupeVars

\* write_report(&config, log, &results)
WriteReport ==
    /\ pc = "write"
    /\ effects' = Append(effects, "write_report")
    /\ \E reported \in BOOLEAN :
          result' = IF reported THEN Ok ELSE Err("Failed to write report")
    /\ pc' = "returned"
    /\ UNCHANGED <<args, config, log>>
    /\ UNCHANGED reportVars
    /\ UNCHANGED dedupeVars

NextGroup == CheckPaths \/ ConfigurePool \/ CreateOutput \/ GroupFiles \/ WriteReport

SpecGroup == InitGroup /\ [][NextGroup]_vars


\* =============================================================== run_dedupe
\* command vectors a report header may record
GroupCommand == <<<<"fclones">>, <<"group">>, <<".">>>>
GroupCommandRfOver == <<<<"fclones">>, <<"group">>, <<"--rf-over">>, <<"2">>, <<".">>>>
RemoveCommand == <<<<"fclones">>, <<"remove">>>>
LegacyCommand == <<<<"fclones">>, <<"find">>, <<".">>>>

RecordedCommandPool == {GroupCommand, GroupCommandRfOver, RemoveCommand, LegacyCommand}

\* Config::from_iter_safe(&header.command), with c.rf_over() of a group command
Config_from_iter_safe(recorded) ==
    CASE recorded = GroupCommand -> [ok |-> TRUE, command |-> "Group", rf_over |-> 1]
      [] recorded = GroupCommandRfOver -> [ok |-> TRUE, command |-> "Group", rf_over |-> 2]
      [] recorded = RemoveCommand -> [ok |-> TRUE, command |-> "Remove"]
      [] OTHER -> [ok |-> FALSE]

DateTime2 == <<"2","0","2","2","-","0","1","-","0","1"," ","0","0",":","0","0",":","0","0">>

UserCutoff ==
    [datetime |-> DateTime2, nanos |-> <<0, 0, 0, 0, 0, 0, 0, 0, 0>>,
     offset |-> <<"+", "0", "0", "0", "0">>]

DedupeConfigPool ==
    [rf_over : {None, Some(3)}, modified_before : {None, Some(UserCutoff)},
     dry_run : BOOLEAN, output : OutputPool]

DedupeHeaderPool ==
    [version : {<<"0", ".", "1", "2", ".", "0">>},
     timestamp : {[datetime |-> DateTime1, nanos |-> <<4, 5, 6, 0, 0, 0, 0, 0, 0>>,
                   offset |-> <<"+", "0", "0", "0", "0">>]},
     command : RecordedCommandPool, stats : StatsPool]

DedupeGroupPool ==
    { [file_len |-> <<1, 0, 0>>, file_hash |-> Hash1,
       files |-> <<PathFrom(<<"a">>), PathFrom(<<"/", "b", " ", "c">>)>>],
      [file_len |-> <<4, 0, 0, 0, 0>>, file_hash |-> Hash2,
       files |-> <<PathFrom(<<"c", "/", "d">>)>>] }

\* lines of a text report body that holds a malformed part
BrokenLinePool ==
    { HeaderLine(Hash2, <<"4">>, <<"1">>),
      <<" ", " ", " ", " ", "/", "file1">>,
      <<"malformed", " ", "group", " ", "header", ":">> }

\* what run_dedupe may find on standard input
StdinPool ==
    { write(f, h, g, FALSE) : f \in {"Default", "Json", "Csv"}, h \in DedupeHeaderPool,
                              g \in SeqsUpTo(DedupeGroupPool, MaxGroups) }
    \cup { write_as_text([DummyHeader EXCEPT !.command = c], <<>>, FALSE) \o Encode(b, LF) :
              c \in RecordedCommandPool, b \in SeqsUpTo(BrokenLinePool, MaxLines) }

InitDedupe ==
    /\ command = "remove"
    /\ file \in StdinPool
    /\ args \in DedupeConfigPool
    /\ dedupe_config = args
    /\ pc = "open_report"
    /\ exit_status = None
    /\ groups_result = None
    /\ handed = <<>>
    /\ ticks = 0
    /\ config = None
    /\ log = <<>>
    /\ effects = <<>>
    /\ result = None
    /\ header = DummyHeader
    /\ groups = <<>>
    /\ format = "Default"
    /\ color = FALSE
    /\ written = TRUE
    /\ reader = NoReader
    /\ headers = <<>>
    /\ iter = NoIter
    /\ results = <<>>
    /\ body = <<>>
    /\ eol = LF

\* let mut reader = open_report(stdin()).map_err(input_error)?
DedupeOpenReport ==
    /\ pc = "open_report"
    /\ effects' = Append(effects, "open_report")
    /\ LET Opened(r) ==
               IF r.ok
               THEN /\ reader' = r.reader @@ [via |-> "open_report"]
                    /\ pc' = "read_header"
                    /\ result' = result
               ELSE /\ reader' = [kind |-> "failed", err |-> r.err, via |-> "open_report"]
                    /\ pc' = "returned"
                    /\ result' = Err("Input error")
       IN  Opened(open_report(file))
    /\ UNCHANGED <<args, config, log>>
    /\ UNCHANGED dedupeVars
    /\ UNCHANGED <<header, groups, format, color, file, written, headers, iter, results,
                   body, eol>>

\* let header = reader.read_header().map_err(input_error)?
DedupeReadHeader ==
    /\ pc = "read_header"
    /\ effects' = Append(effects, "read_header")
    /\ LET Got(r) ==
               /\ headers' = Append(headers, r)
               /\ IF r.ok
                  THEN pc' = "find_config" /\ result' = result
                  ELSE pc' = "returned" /\ result' = Err("Input error")
           Text(r) ==
               /\ reader' = [reader EXCEPT !.stream = r.stream]
               /\ Got(IF r.ok THEN [ok |-> TRUE, v |-> r.v] ELSE [ok |-> FALSE, err |-> r.err])
       IN  IF reader.kind = "text"
           THEN Text(TextReportReader_read_header(reader.stream))
           ELSE /\ reader' = reader
                /\ Got(JsonReportReader_read_header(reader.report))
    /\ UNCHANGED <<args, config, log>>
    /\ UNCHANGED dedupeVars
    /\ UNCHANGED <<header, groups, format, color, file, written, iter, results, body, eol>>

\* the progress indicator run_dedupe asks the log for
progress_of(cfg, stats) ==
    IF cfg.dry_run /\ cfg.output = None THEN "log.hidden"
    ELSE IF stats # None THEN "log.progress_bar"
    ELSE "log.spinner"

\* a recorded command that does not parse is taken for a plain group command
rf_over_guessed(find_config, own) ==
    IF ~find_config.ok THEN [ok |-> TRUE, rf_over |-> 1]
    ELSE IF find_config.command = "Group" THEN [ok |-> TRUE, rf_over |-> find_config.rf_over]
    ELSE IF own # None THEN [ok |-> TRUE, rf_over |-> own.some]
    ELSE [ok |-> FALSE,
          message |-> "Could not extract --rf-over setting from the earlier fclones configuration."]

\* the dedupe command's own rf_over is preferred to the recorded one
rf_over_own_first(find_config, own) ==
    IF ~find_config.ok
    THEN [ok |-> FALSE, message |-> "Unrecognized earlier fclones configuration"]
    ELSE IF own # None THEN [ok |-> TRUE, rf_over |-> own.some]
    ELSE IF find_config.command = "Group" THEN [ok |-> TRUE, rf_over |-> find_config.rf_over]
    ELSE [ok |-> FALSE,
          message |-> "Could not extract --rf-over setting from the earlier fclones configuration."]

\* the `?` on find_config and the match that yields rf_over; `own` is
\* dedupe_config.rf_over as the dedupe command was given it
rf_over_of(find_config, own) ==
    IF ~find_config.ok
    THEN [ok |-> FALSE, message |-> "Unrecognized earlier fclones configuration"]
    ELSE IF find_config.command = "Group" THEN [ok |-> TRUE, rf_over |-> find_config.rf_over]
    ELSE IF own # None THEN [ok |-> TRUE, rf_over |-> own.some]
    ELSE [ok |-> FALSE,
          message |-> "Could not extract --rf-over setting from the earlier fclones configuration."]

\* the header timestamp replaces a cutoff the user gave
modified_before_of_header(own, timestamp) == Some(timestamp)

\* dedupe_config.modified_before after the `if dedupe_config.modified_before.is_none()`
modified_before_of(own, timestamp) == IF own = None THEN Some(timestamp) ELSE own

\* run_dedupe from Config::from_iter_safe to the progress indicator
DedupeConfigure ==
    /\ pc = "find_config"
    /\ LET Proceed(hd, cfg) ==
               /\ dedupe_config' = cfg
               /\ log' = Append(log, [level |-> "info",
                                      about |-> IF cfg.dry_run
                                                THEN "Started deduplicating (dry run)"
                                                ELSE "Started deduplicating"])
               /\ groups_result' = Ok
               /\ effects' = Append(effects, progress_of(cfg, hd.stats))
               /\ pc' = "read_groups"
               /\ result' = result
           Matched(hd, rf_over) ==
               IF ~rf_over.ok
               THEN /\ result' = Err(rf_over.message)
                    /\ pc' = "returned"
                    /\ UNCHANGED <<dedupe_config, groups_result, log, effects>>
               ELSE Proceed(hd, [dedupe_config EXCEPT
                                    !.rf_over = Some(rf_over.rf_over),
                                    !.modified_before = modified_before_of(@, hd.timestamp)])
           Header(hd) ==
               Matched(hd, rf_over_of(Config_from_iter_safe(hd.command), dedupe_config.rf_over))
       IN  Header(headers[1].v)
    /\ UNCHANGED <<args, config>>
    /\ UNCHANGED <<command, exit_status, handed, ticks>>
    /\ UNCHANGED reportVars

\* let groups = reader.read_groups(); the iterator chain up to par_bridge()
DedupeReadGroups ==
    /\ pc = "read_groups"
    /\ effects' = Append(effects, "read_groups")
    /\ iter' = IF reader.kind = "text"
               THEN [kind |-> "text", it |-> TextReportReader_read_groups(reader.stream)]
               ELSE [kind |-> "json", items |-> JsonReportReader_read_groups(reader.report)]
    /\ reader' = [kind |-> "moved", via |-> reader.via]
    /\ pc' = "dedupe"
    /\ UNCHANGED <<args, config, log, result>>
    /\ UNCHANGED dedupeVars
    /\ UNCHANGED <<header, groups, format, color, file, written, headers, results, body, eol>>

\* the script is executed whether or not dry_run is set
DedupeCall_always_runs ==
    /\ pc = "dedupe"
    /\ effects' = Append(effects, "dedupe")
    /\ pc' = "run_script"
    /\ UNCHANGED <<args, config, log, result>>
    /\ UNCHANGED dedupeVars
    /\ UNCHANGED reportVars

\* let script = dedupe(groups, op, &dedupe_config, log)
DedupeCall ==
    /\ pc = "dedupe"
    /\ effects' = Append(effects, "dedupe")
    /\ pc' = IF dedupe_config.dry_run THEN "get_output_writer" ELSE "run_script"
    /\ UNCHANGED <<args, config, log, result>>
    /\ UNCHANGED dedupeVars
    /\ UNCHANGED reportVars

\* let out = get_output_writer(&dedupe_config)?
DedupeGetOutputWriter ==
    /\ pc = "get_output_writer"
    /\ IF dedupe_config.output # None
       THEN \E created \in BOOLEAN :
               /\ effects' = effects \o <<"get_output_writer",
                                          IF created THEN "File::create"
                                          ELSE "File::create failed">>
               /\ IF created
                  THEN pc' = "log_script" /\ result' = result
                  ELSE pc' = "returned" /\ result' = Err("Failed to create output file")
       ELSE /\ effects' = Append(effects, "get_output_writer")
            /\ pc' = "log_script"
            /\ result' = result
    /\ UNCHANGED <<args, config, log>>
    /\ UNCHANGED dedupeVars
    /\ UNCHANGED reportVars

\* log_script(script, out) is entered
DedupeLogScript ==
    /\ pc = "log_script"
    /\ effects' = Append(effects, "log_script")
    /\ pc' = "logging"
    /\ UNCHANGED <<args, config, log, result>>
    /\ UNCHANGED dedupeVars
    /\ UNCHANGED reportVars

\* run_script(script, log) is entered
DedupeRunScript ==
    /\ pc = "run_script"
    /\ effects' = Append(effects, "run_script")
    /\ pc' = "running"
    /\ UNCHANGED <<args, config, log, result>>
    /\ UNCHANGED dedupeVars
    /\ UNCHANGED reportVars

\* one item is pulled through .iterator().map(..).take_while(..).map(..)
\* .inspect(..) by the consumer of the script; the first None ends the pulling
DedupePullGroup ==
    /\ pc \in {"logging", "running"}
    /\ LET Ended == IF pc = "logging" THEN "logged" ELSE "summary"
           Got(r) ==
               /\ results' = Append(results, r.res)
               /\ CASE r.res.tag = "group" ->
                         /\ handed' = Append(handed, r.res.group)
                         /\ ticks' = ticks + 1
                         /\ pc' = pc
                         /\ groups_result' = groups_result
                    [] r.res.tag = "end" ->
                         /\ pc' = Ended
                         /\ UNCHANGED <<handed, ticks, groups_result>>
                    [] r.res.tag = "err" ->
                         /\ groups_result' = [ok |-> FALSE, err |-> r.res.err]
                         /\ pc' = Ended
                         /\ UNCHANGED <<handed, ticks>>
                    [] OTHER ->
                         /\ pc' = "panicked"
                         /\ UNCHANGED <<handed, ticks, groups_result>>
           Text(r) ==
               /\ iter' = IF r.res.tag = "panic" THEN [kind |-> "panicked"]
                          ELSE [kind |-> "text", it |-> r.it]
               /\ Got(r)
           Json(r) ==
               /\ iter' = [kind |-> "json", items |-> r.items]
               /\ Got(r)
       IN  IF iter.kind = "text" THEN Text(TextReportIterator_next(iter.it))
           ELSE Json(JsonIterator_next(iter.items))
    /\ UNCHANGED <<args, config, log, effects, result>>
    /\ UNCHANGED <<command, exit_status, dedupe_config>>
    /\ UNCHANGED <<header, groups, format, color, file, written, reader, headers, body, eol>>

\* log_script returns Err: .map_err(|e| format!("Output error: {}", e))?
DedupeOutputError ==
    /\ pc \in {"logging", "logged"}
    /\ result' = Err("Output error")
    /\ pc' = "returned"
    /\ UNCHANGED <<args, config, log, effects>>
    /\ UNCHANGED dedupeVars
    /\ UNCHANGED reportVars

\* log_script returns Ok
DedupeLogged ==
    /\ pc = "logged"
    /\ pc' = "summary"
    /\ UNCHANGED <<args, config, log, effects, result>>
    /\ UNCHANGED dedupeVars
    /\ UNCHANGED reportVars

\* the summary is logged and Ok is returned whatever `result` holds
DedupeSummary_forgets ==
    /\ pc = "summary"
    /\ log' = Append(log, [level |-> "info",
                           about |-> IF dedupe_config.dry_run THEN "Would process"
                                     ELSE "Processed"])
    /\ result' = Ok
    /\ pc' = "returned"
    /\ UNCHANGED <<args, config, effects>>
    /\ UNCHANGED dedupeVars
    /\ UNCHANGED reportVars

\* the summary is logged and `result` is returned
DedupeSummary ==
    /\ pc = "summary"
    /\ log' = Append(log, [level |-> "info",
                           about |-> IF dedupe_config.dry_run THEN "Would process"
                                     ELSE "Processed"])
    /\ result' = IF groups_result.ok THEN Ok ELSE Err("Failed to read file list")
    /\ pc' = "returned"
    /\ UNCHANGED <<args, config, effects>>
    /\ UNCHANGED dedupeVars
    /\ UNCHANGED reportVars

NextDedupe ==
    \/ DedupeOpenReport
    \/ DedupeReadHeader
    \/ DedupeConfigure
    \/ DedupeReadGroups
    \/ DedupeCall
    \/ DedupeGetOutputWriter
    \/ DedupeLogScript
    \/ DedupeRunScript
    \/ DedupePullGroup
    \/ DedupeOutputError
    \/ DedupeLogged
    \/ DedupeSummary

SpecDedupe == InitDedupe /\ [][NextDedupe]_vars

\* ===================================================================== main
\* what main may find on standard input when the command is a dedupe command
MainStdinPool ==
    { write_as_text([DummyHeader EXCEPT !.command = c], <<>>, FALSE) \o Encode(b, LF) :
         c \in {GroupCommand, LegacyCommand},
         b \in { <<>>,
                 <<HeaderLine(Hash2, <<"4">>, <<"1">>), <<" ", " ", " ", " ", "/", "file1">>>>,
                 <<<<"malformed", " ", "group", " ", "header", ":">>>>,
                 <<HeaderLine(Hash1, Rep("9", 20), <<"1">>)>> } }
    \cup { write_as_csv(DummyHeader, <<>>) }

\* Config::from_args() has chosen the command; main is about to run
InitMain ==
    /\ pc = "main"
    /\ exit_status = None
    /\ \/ /\ command = "group"
          /\ args \in [stdin : BOOLEAN, depth : {None, Some(0)},
                       paths : {<<>>} \cup {<<p>> : p \in RootPool}, output : OutputPool]
          /\ dedupe_config = None
          /\ file = <<>>
          /\ written = FALSE
       \/ /\ command = "remove"
          /\ args \in DedupeConfigPool
          /\ dedupe_config = args
          /\ file \in MainStdinPool
          /\ written = TRUE
    /\ config = IF command = "group" THEN args ELSE None
    /\ groups_result = None
    /\ handed = <<>>
    /\ ticks = 0
    /\ log = <<>>
    /\ effects = <<>>
    /\ result = None
    /\ header = DummyHeader
    /\ groups = <<>>
    /\ format = "Default"
    /\ color = FALSE
    /\ reader = NoReader
    /\ headers = <<>>
    /\ iter = NoIter
    /\ results = <<>>
    /\ body = <<>>
    /\ eol = LF

\* std::env::current_dir() and the match on config.command: the command is
\* entered, or the process exits with 1 for want of a working directory
MainStart ==
    /\ pc = "main"
    /\ \E cwd \in BOOLEAN :
          IF cwd
          THEN /\ pc' = IF command = "group" THEN "start" ELSE "open_report"
               /\ UNCHANGED <<log, exit_status>>
          ELSE /\ log' = Append(log, [level |-> "err",
                                      about |-> "Cannot determine current working directory"])
               /\ exit_status' = 1
               /\ pc' = "exited"
    /\ UNCHANGED <<args, config, effects, result>>
    /\ UNCHANGED <<command, dedupe_config, groups_result, handed, ticks>>
    /\ UNCHANGED reportVars

\* an error of the command is logged and the process exits with 1 whether or
\* not the message is empty
MainExit_logs_all ==
    /\ pc = "returned"
    /\ log' = IF ~result.ok THEN Append(log, [level |-> "err", about |-> result.message])
              ELSE log
    /\ exit_status' = IF result.ok THEN 0 ELSE 1
    /\ pc' = "exited"
    /\ UNCHANGED <<args, config, effects, result>>
    /\ UNCHANGED <<command, dedupe_config, groups_result, handed, ticks>>
    /\ UNCHANGED reportVars

\* if let Err(e) = result { .. exit(1) }, and the return from main otherwise
MainExit ==
    /\ pc = "returned"
    /\ log' = IF ~result.ok /\ result.message # ""
              THEN Append(log, [level |-> "err", about |-> result.message])
              ELSE log
    /\ exit_status' = IF result.ok THEN 0 ELSE 1
    /\ pc' = "exited"
    /\ UNCHANGED <<args, config, effects, result>>
    /\ UNCHANGED <<command, dedupe_config, groups_result, handed, ticks>>
    /\ UNCHANGED reportVars

NextMain == MainStart \/ NextGroup \/ NextDedupe \/ MainExit

SpecMain == InitMain /\ [][NextMain]_vars

\* =================================================================== claims
\* the groups yielded before the first result that is no group
RECURSIVE Collected(_)
Collected(rs) ==
    IF rs = <<>> \/ rs[1].tag # "group" THEN <<>>
    ELSE <<rs[1].group>> \o Collected(Tail(rs))

\* the group sequence has come to its end or to an error
Finished(rs) == \E i \in 1..Len(rs) : rs[i].tag # "group"

\* C1: a report written as text (no colour, stats present) and read back by
\* read_header and then read_groups to the end of the sequence yields the
\* groups that were written, in order, and then end-of-stream.
C1_TextRoundTrip ==
    (/\ format = "Default"
     /\ ~color
     /\ header.stats # None
     /\ iter.kind = "text"
     /\ Len(headers) = 1
     /\ headers[1].ok
     /\ Finished(results))
    => /\ Collected(results) = groups
       /\ results[Len(groups) + 1].tag = "end"

\* C2: a report written as JSON is accepted by the JSON reader, and the
\* results of its group sequence are the written groups in order, followed
\* by end-of-stream only: no error item.
C2_JsonRoundTrip ==
    (written /\ format = "Json")
    => /\ reader.kind # "failed"
       /\ iter.kind = "json"
          => \A i \in 1..Len(results) :
                IF i <= Len(groups)
                THEN results[i].tag = "group" /\ results[i].group = groups[i]
                ELSE results[i].tag = "end"

\* two different groups were written as JSON and read back to the end
C2_Witness ==
    /\ format = "Json"
    /\ Len(groups) = 2
    /\ groups[1] # groups[2]
    /\ Len(headers) = 1
    /\ iter.kind = "json"
    /\ Len(results) = 3

\* C3: a header written in the Default or the Json format is read back by
\* open_report and read_header: both succeed and the header returned equals
\* the one written.
C3_HeaderRoundTrip ==
    (/\ format \in {"Default", "Json"}
     /\ ~color
     /\ reader.kind # "none"
     /\ reader.via = "open_report")
    => /\ reader.kind # "failed"
       /\ Len(headers) >= 1 => (headers[1].ok /\ headers[1].v = header)

\* what open_report made of the input
Detected ==
    CASE reader.kind = "moved" -> IF iter.kind = "json" THEN "json" ELSE "text"
      [] reader.kind = "failed" ->
            IF reader.err.msg = "Unknown report format." THEN "unknown" ELSE "json"
      [] OTHER -> reader.kind

\* C4: open_report decides on the first byte of the input that is no white
\* space: "{" is taken as JSON (a JSON reader, or the JSON reader's refusal
\* of the document), "#" as text, and anything else, the empty input
\* included, is an InvalidData error.
C4_Autodetection ==
    (reader.kind # "none" /\ reader.via = "open_report")
    => Detected = (CASE SkipWs(file, 1) > Len(file) -> "unknown"
                     [] file[SkipWs(file, 1)] = "{" -> "json"
                     [] file[SkipWs(file, 1)] = "#" -> "text"
                     [] OTHER -> "unknown")

\* C5: once next has returned an error, every later call returns
\* end-of-stream.
C5_ErrorIsTerminal ==
    \A i, j \in 1..Len(results) :
        (i < j /\ results[i].tag = "err") => results[j].tag = "end"

\* C6: read_header answers once only, and a group sequence is opened only
\* after the header was read.
C6_Lifecycle ==
    /\ Len(headers) >= 2 => ~headers[2].ok
    /\ iter.kind # "none" => Len(headers) >= 1

\* C7: every group the text group sequence yields holds at least one file.
C7_GroupsNonEmpty ==
    \A i \in 1..Len(results) :
        results[i].tag = "group" => results[i].group.files # <<>>

\* the results of `n` calls of next, from the iterator `it`; a panic ends them
RECURSIVE Run(_, _)
Run(it, n) ==
    LET Got(r) ==
            IF r.res.tag = "panic" THEN <<r.res>> ELSE <<r.res>> \o Run(r.it, n - 1)
    IN  IF n = 0 THEN <<>> ELSE Got(TextReportIterator_next(it))

\* a result without the text of its error
Outcome(r) == IF r.tag = "group" THEN r ELSE [tag |-> r.tag]

\* C8: the results of next over a body whose lines end in CR LF are, call by
\* call, those over the same body with lines ending in LF (the same groups,
\* end-of-stream and errors at the same calls), and no path ends in CR.
C8_LineEndings ==
    eol = CRLF
    => /\ LET Same(lf) ==
                  /\ Len(lf) = Len(results)
                  /\ \A i \in 1..Len(results) : Outcome(results[i]) = Outcome(lf[i])
          IN  Same(Run(TextReportIterator_new(Encode(body, LF)), Len(results)))
       /\ \A i \in 1..Len(results) :
             results[i].tag = "group"
             => \A j \in 1..Len(results[i].group.files) :
                   LET NoCr(d) == d = <<>> \/ d[Len(d)] # "\r"
                   IN  NoCr(PathDisplay(results[i].group.files[j]))

\* a body with CR LF line ends gave a group with a path and then a further result
C8_Witness ==
    /\ eol = CRLF
    /\ Len(results) >= 2
    /\ results[1].tag = "group"
    /\ results[1].group.files # <<>>

Inaccessible(p) == ~metadata(p).ok

Logged(level, p) == \E k \in 1..Len(log) : log[k] = [level |-> level, about |-> p]

AccessError == Err("Some input paths could not be accessed.")

NoInputFiles == Err("No input files.")

\* C9: with the input list not streamed and a root that cannot be accessed,
\* run_group logs an error for each such root, returns 'Some input paths
\* could not be accessed.' and has configured no thread pool, created no
\* output file and called no group_files; with the input list streamed it
\* removes no path, logs no access error and returns neither path error.
C9_InaccessibleRoots ==
    /\ (/\ ~args.stdin
        /\ pc \notin {"idle", "start"}
        /\ \E i \in 1..Len(args.paths) : Inaccessible(args.paths[i]))
       => /\ pc = "returned"
          /\ result = AccessError
          /\ effects = <<>>
          /\ \A i \in 1..Len(args.paths) :
                Inaccessible(args.paths[i]) => Logged("err", args.paths[i])
    /\ (args.stdin /\ pc \notin {"idle", "start"})
       => /\ config.paths = args.paths
          /\ \A k \in 1..Len(log) : log[k].level = "info"
          /\ result \notin {AccessError, NoInputFiles}

\* run_group returned on input that is not streamed and holds a root that
\* cannot be accessed next to one that can
C9_Witness ==
    /\ ~args.stdin
    /\ pc = "returned"
    /\ \E i, j \in 1..Len(args.paths) :
          Inaccessible(args.paths[i]) /\ ~Inaccessible(args.paths[j])

\* the roots run_group is to keep
Kept(p) == metadata(p).ok /\ ~(metadata(p).is_dir /\ args.depth = Some(0))

\* C10: with the input list not streamed, the paths left after the check are
\* the accessible roots without the directories when depth is Some(0), and
\* with them for any other depth; a warning is logged for a directory if and
\* only if it is removed; with no path left and no access error the result is
\* 'No input files.' and group_files was not called; with an access error the
\* result is the access error.
C10_DirectoriesAtDepthZero ==
    (~args.stdin /\ pc \notin {"idle", "start"})
    => /\ config.paths = SelectSeq(args.paths, Kept)
       /\ \A i \in 1..Len(args.paths) :
             Logged("warn", args.paths[i])
             <=> (/\ metadata(args.paths[i]).ok
                  /\ metadata(args.paths[i]).is_dir
                  /\ args.depth = Some(0))
       /\ IF \E i \in 1..Len(args.paths) : Inaccessible(args.paths[i])
          THEN result = AccessError
          ELSE IF SelectSeq(args.paths, Kept) = <<>>
          THEN result = NoInputFiles /\ effects = <<>>
          ELSE result # NoInputFiles /\ result # AccessError

\* run_group returned 'No input files.' after removing the only root, a
\* directory, at depth Some(0)
C10_Witness ==
    /\ ~args.stdin
    /\ args.depth = Some(0)
    /\ args.paths # <<>>
    /\ \A i \in 1..Len(args.paths) : metadata(args.paths[i]).ok
    /\ pc = "returned"
    /\ result = NoInputFiles

\* the call `e` was made
Called(e) == \E k \in 1..Len(effects) : effects[k] = e

\* how often the call `e` was made
Count(e) == Cardinality({k \in 1..Len(effects) : effects[k] = e})

\* the thread pool and the output file come before group_files, the pool is
\* configured once, and a failed File::create ends run_group
PoolAndOutputFirst ==
    /\ Count("configure_main_thread_pool") <= 1
    /\ Called("group_files")
       => /\ effects[1] = "configure_main_thread_pool"
          /\ IF config.output # None
             THEN effects[2] = "File::create" /\ effects[3] = "group_files"
             ELSE effects[2] = "group_files"
    /\ config.output = None => ~Called("File::create") /\ ~Called("File::create failed")
    /\ Called("File::create failed")
       => /\ pc = "returned"
          /\ result = Err("Cannot create output file")
          /\ effects = <<"configure_main_thread_pool", "File::create failed">>
    /\ result = Err("Cannot create output file") => Called("File::create failed")

\* C11 as stated: in every execution, streamed input included, group_files is
\* called only after the access check of the input paths (no path handed to
\* group_files is inaccessible), after the thread pool was configured and
\* after the attempt to create the output file; a failed creation returns
\* 'Cannot create output file' with no group_files and no write_report; the
\* pool is configured at most once.
C11_FailEarlyAllInputs ==
    /\ PoolAndOutputFirst
    /\ Called("group_files")
       => \A i \in 1..Len(config.paths) : ~Inaccessible(config.paths[i])

\* C11: as above, with the access check preceding group_files when the input
\* list is not streamed; for streamed input only the thread pool and the
\* output file precede group_files.
C11_FailEarlyOrdering ==
    /\ PoolAndOutputFirst
    /\ (~args.stdin /\ Called("group_files"))
       => \A i \in 1..Len(config.paths) : ~Inaccessible(config.paths[i])
    /\ (args.stdin /\ pc \notin {"idle", "start"}) => config.paths = args.paths

\* run_group, on input that is not streamed, could not create its output file
C11_Witness ==
    /\ ~args.stdin
    /\ args.paths # <<>>
    /\ pc = "returned"
    /\ result = Err("Cannot create output file")

\* run_dedupe did not get past the report header: open_report failed,
\* read_header failed, or the recorded command was refused as unparseable
HeaderFailed ==
    \/ reader.kind = "failed"
    \/ \E k \in 1..Len(headers) : ~headers[k].ok
    \/ /\ headers # <<>>
       /\ headers[1].ok
       /\ ~Config_from_iter_safe(headers[1].v.command).ok
       /\ pc # "find_config"

\* C12: when open_report fails, read_header fails or the recorded command does
\* not parse as an fclones configuration, run_dedupe has returned an error and
\* none of read_groups, dedupe, log_script and run_script was called; none of
\* them is called before the header was read and its command parsed.
C12_FailEarlyOnHeader ==
    /\ HeaderFailed
       => /\ pc = "returned"
          /\ result \in {Err("Input error"), Err("Unrecognized earlier fclones configuration")}
          /\ ~Called("read_groups") /\ ~Called("dedupe")
          /\ ~Called("log_script") /\ ~Called("run_script")
          /\ handed = <<>>
    /\ pc \in {"open_report", "read_header", "find_config"}
       => /\ ~Called("read_groups") /\ ~Called("dedupe")
          /\ ~Called("log_script") /\ ~Called("run_script")

\* run_dedupe refused a report whose header was read but whose recorded
\* command is no fclones configuration
C12_Witness ==
    /\ headers # <<>>
    /\ headers[1].ok
    /\ ~Config_from_iter_safe(headers[1].v.command).ok
    /\ pc = "returned"
    /\ result = Err("Unrecognized earlier fclones configuration")

\* C13: in a dry run with an output path configured, dedupe is called on the
\* group sequence only after the attempt to create the output file was made;
\* a failed creation is reported with dedupe never called.
C13_OutputProbedBeforeDedupe ==
    (dedupe_config.dry_run /\ dedupe_config.output # None)
    => /\ Called("dedupe") => (Called("File::create") \/ Called("File::create failed"))
       /\ Called("File::create failed") => ~Called("dedupe")

\* the header was read and run_dedupe is past its configuration step
Configured == headers # <<>> /\ headers[1].ok /\ pc # "find_config"

\* what the recorded command of the header parses to
Recorded == Config_from_iter_safe(headers[1].v.command)

\* C14: once the configuration step is done, rf_over is that of the recorded
\* command when it parses as a group command, whatever the dedupe command was
\* given; it is the dedupe command's own rf_over when the recorded command
\* parses as another command and the dedupe command has one; in every other
\* case run_dedupe has returned an error, rf_over is as the dedupe command was
\* given it and dedupe is never called.
C14_RfOverDetermination ==
    Configured
    => IF Recorded.ok /\ Recorded.command = "Group"
       THEN dedupe_config.rf_over = Some(Recorded.rf_over)
       ELSE IF Recorded.ok /\ args.rf_over # None
       THEN dedupe_config.rf_over = args.rf_over
       ELSE /\ pc = "returned"
            /\ result = IF Recorded.ok
                        THEN Err("Could not extract --rf-over setting from the earlier fclones configuration.")
                        ELSE Err("Unrecognized earlier fclones configuration")
            /\ dedupe_config.rf_over = args.rf_over
            /\ ~Called("dedupe")

\* dedupe was called with the rf_over of the recorded group command although
\* the dedupe command was given another one
C14_Witness ==
    /\ Configured
    /\ Recorded.ok
    /\ Recorded.command = "Group"
    /\ args.rf_over # None
    /\ args.rf_over # Some(Recorded.rf_over)
    /\ Called("dedupe")
    /\ dedupe_config.rf_over = Some(Recorded.rf_over)

\* C15: from the end of the configuration step on, and so whenever dedupe is
\* called, the cutoff modified_before is the one the user gave when there is
\* one and the timestamp of the header that was read otherwise; it is never
\* absent then.
C15_ModifiedBeforeDefault ==
    (Configured /\ (pc # "returned" \/ Called("dedupe")))
    => /\ dedupe_config.modified_before # None
       /\ dedupe_config.modified_before =
             IF args.modified_before # None THEN args.modified_before
             ELSE Some(headers[1].v.timestamp)

\* dedupe was called with the timestamp of the header as the cutoff, the user
\* having given none
C15_Witness ==
    /\ Configured
    /\ Called("dedupe")
    /\ args.modified_before = None
    /\ dedupe_config.modified_before = Some(headers[1].v.timestamp)

\* C16 as stated: with dry_run set run_script is never called and the summary,
\* 'Would process', follows log_script; with dry_run unset neither log_script
\* nor get_output_writer is called, and every execution that has returned
\* called run_script exactly once and logged the summary 'Processed'.
C16_DryRunNeverExecutes ==
    /\ dedupe_config.dry_run
       => /\ ~Called("run_script")
          /\ ~Logged("info", "Processed")
          /\ Logged("info", "Would process") => Called("log_script")
    /\ ~dedupe_config.dry_run
       => /\ ~Called("log_script")
          /\ ~Called("get_output_writer")
          /\ ~Logged("info", "Would process")
          /\ pc = "returned" => Count("run_script") = 1 /\ Logged("info", "Processed")

\* C16: as above, with run_script called exactly once, and 'Processed' logged,
\* in the executions without dry_run that reach the call of dedupe; an
\* execution that returns before it calls run_script not at all and logs no
\* summary.  No call is made twice.
C16_DryRunSeparation ==
    /\ dedupe_config.dry_run = args.dry_run
    /\ Count("run_script") <= 1 /\ Count("log_script") <= 1 /\ Count("dedupe") <= 1
    /\ dedupe_config.dry_run
       => /\ ~Called("run_script")
          /\ ~Logged("info", "Processed")
          /\ Logged("info", "Would process") => Called("log_script")
          /\ Called("log_script") => Called("get_output_writer") /\ Called("dedupe")
    /\ ~dedupe_config.dry_run
       => /\ ~Called("log_script")
          /\ ~Called("get_output_writer")
          /\ ~Called("File::create") /\ ~Called("File::create failed")
          /\ ~Logged("info", "Would process")
          /\ Called("run_script") => Called("dedupe")
          /\ Logged("info", "Processed") => Called("run_script")
          /\ (pc = "returned" /\ Called("dedupe"))
             => Count("run_script") = 1 /\ Logged("info", "Processed")

\* a dry run over a report with a group has logged its script and the summary
C16_Witness ==
    /\ dedupe_config.dry_run
    /\ pc = "returned"
    /\ handed # <<>>
    /\ Called("log_script")
    /\ Logged("info", "Would process")
    /\ result = Ok

\* the group sequence of run_dedupe yielded an error
ReadFailed == \E k \in 1..Len(results) : results[k].tag = "err"

\* the groups handed to dedupe are those yielded before the first result that
\* is no group, each ticked once, and nothing is pulled after that result
HandedUpToError ==
    /\ handed = Collected(results)
    /\ ticks = Len(handed)
    /\ Len(results) <= Len(handed) + 1

\* the script was logged or executed and the summary was logged
ScriptAndSummary ==
    IF dedupe_config.dry_run
    THEN Called("log_script") /\ Logged("info", "Would process")
    ELSE Called("run_script") /\ Logged("info", "Processed")

\* C18 as stated: the groups handed to dedupe are the k groups before the
\* error; when run_dedupe has returned after an error of the group sequence,
\* the script was logged or executed, the summary was logged and the result is
\* 'Failed to read file list'; when it has returned after the sequence ended
\* without error, the result is Ok.
C18_GroupErrorMidReport ==
    /\ HandedUpToError
    /\ (pc = "returned" /\ ReadFailed)
       => ScriptAndSummary /\ result = Err("Failed to read file list")
    /\ (pc = "returned" /\ results # <<>> /\ results[Len(results)].tag = "end")
       => result = Ok

\* C18: as above, unless log_script failed: then run_dedupe has returned
\* 'Output error' with no summary, whether or not the sequence yielded an error.
C18_GroupErrorUnlessOutputError ==
    /\ HandedUpToError
    /\ (pc = "returned" /\ ReadFailed /\ result # Err("Output error"))
       => ScriptAndSummary /\ result = Err("Failed to read file list")
    /\ (pc = "returned" /\ results # <<>> /\ results[Len(results)].tag = "end"
        /\ result # Err("Output error"))
       => result = Ok
    /\ result = Err("Failed to read file list") => ReadFailed /\ ScriptAndSummary
    /\ result = Err("Output error")
       => dedupe_config.dry_run /\ Called("log_script") /\ ~Logged("info", "Would process")

\* run_dedupe returned 'Failed to read file list' after one group was handed
\* to dedupe and the sequence then yielded an error
C18_Witness ==
    /\ pc = "returned"
    /\ Len(handed) = 1
    /\ Len(results) = 2
    /\ results[2].tag = "err"
    /\ ticks = 1
    /\ result = Err("Failed to read file list")

\* a message was emitted on the error sink
ErrLogged == \E k \in 1..Len(log) : log[k].level = "err"

\* main could not determine the working directory
CwdFailed == Logged("err", "Cannot determine current working directory")

\* the selected command has returned an error
CommandFailed == result # None /\ ~result.ok

\* C17: when the process has exited, its status is 1 if the command returned
\* an error or the working directory could not be determined, and 0 otherwise;
\* a message on the error sink is always followed by status 1; a command error
\* with a message is logged on the error sink, one with an empty message is
\* not, and both exit with 1.
C17_ExitStatus ==
    IF pc = "exited"
    THEN /\ exit_status \in {0, 1}
         /\ exit_status = 1 <=> (CommandFailed \/ CwdFailed)
         /\ ErrLogged => exit_status = 1
         /\ result = Ok => exit_status = 0 /\ ~ErrLogged
         /\ CommandFailed
            => IF result.message = "" THEN ~Logged("err", "")
               ELSE log[Len(log)] = [level |-> "err", about |-> result.message]
    ELSE /\ exit_status = None
         /\ ErrLogged => pc = "returned" /\ CommandFailed

\* the command returned an error with an empty message: the process exited
\* with 1 and nothing on the error sink
C17_Witness ==
    /\ pc = "exited"
    /\ result = Err("")
    /\ exit_status = 1
    /\ ~ErrLogged

\* C19: when next of the text iterator has returned end-of-stream after
\* nothing but groups, the input stream is exhausted (nothing but white space
\* is left of it); and once next has returned end-of-stream, every later call
\* returns end-of-stream.
C19_NoSilentTruncation ==
    /\ (/\ results # <<>>
        /\ results[Len(results)].tag = "end"
        /\ \A j \in 1..(Len(results) - 1) : results[j].tag = "group")
       => trim(iter.it.stream) = <<>>
    /\ \A i \in 1..Len(results) : \A j \in (i + 1)..Len(results) :
          results[i].tag = "end" => results[j].tag = "end"

\* C20: every call of next of the text iterator returns a group, an error or
\* end-of-stream: a line in group-header position that matches the group-header
\* pattern never makes read_group_header panic, whatever its numbers.
C20_NumbersNeverPanic ==
    \A i \in 1..Len(results) : results[i].tag \in {"group", "err", "end"}

====
